---- MODULE Spec2Model ----
(***************************************************************************)
(* A model of the unwind-context crate: scope guards that render captured  *)
(* call-site data to a writer when they are dropped during a panic, the    *)
(* argument-list / function-record renderers, and the ANSI colorizer.      *)
(*                                                                         *)
(* Text is a sequence of characters, each character a one-element string   *)
(* ("a", "\"", "\n").  A writer receives text through write_str calls; the *)
(* renderers are written as the source writes them, one write_str call per *)
(* format-string piece or argument, each followed by the `?` of the source *)
(* (IF f.err THEN f ELSE ...).                                             *)
(***************************************************************************)
EXTENDS Integers, Sequences, FiniteSets, TLC

VARIABLES
    frames,                 \* the call stack: main, func1, func2, func3
    sinks,                  \* the writers' underlying buffers / channels
    panicking,              \* std::thread::panicking() of the thread
    is_panicking,           \* the AtomicBool read by DummyPanicDetector
    pc,                     \* position of the thread in the scenario
    result,                 \* what the call of func1 produced
    panic_origin,           \* the function whose unwrap/slice panicked, if any
    prints,                 \* number of explicit print() calls made
    cfg,                    \* the scenario's inputs, fixed at Init
    SHOULD_COLORIZE,        \* static AtomicBool
    DEFAULT_COLOR_SCHEME,   \* static AtomicRef<AnsiColorScheme>
    last_enabled,           \* argument of the latest set_colors_enabled call
    last_scheme,            \* argument of the latest set_default_color_scheme call
    fmt_value,              \* the value handed to debug_fmt, if any
    buffer,                 \* the length of the buffer handed to debug_fmt
    fmt_result,             \* what the latest debug_fmt call returned, if any
    colored_writer,         \* the ColoredWriter of a running fmt_colored, if any
    cw_offset,              \* position in the text of the next character of its write_str
    fmt_writer,             \* the FixedBufWriter of the latest debug_fmt call, as the call left it
    threads,                \* the calls the threads are in: position, loaded flag, return value
    calls,                  \* the threads' calls so far: their number, the arguments of set_*
    reported                \* what the detector of the test body's guard reported when the
                            \* guard was created and, once it is dropped, when it was dropped

vars == <<frames, sinks, panicking, is_panicking, pc, result, panic_origin, prints, cfg,
          SHOULD_COLORIZE, DEFAULT_COLOR_SCHEME, last_enabled, last_scheme,
          fmt_value, buffer, fmt_result, colored_writer, cw_offset, fmt_writer,
          threads, calls, reported>>

\* ------------------------------------------------------------------ bounds

\* Width of usize in the model.
USIZE_BITS == 16

\* Largest number of explicit print() calls in one run.
MaxPrints == 2

\* Largest buffer length tried for a writer that can fail.
MaxCap == 84

\* ------------------------------------------------------------------- text

\* Option<T>: None is the empty sequence, Some(x) the sequence of x alone.
None == <<>>

Some(x) == <<x>>

Unwrap(o) == o[1]

DigitChars == <<"0", "1", "2", "3", "4", "5", "6", "7", "8", "9">>

Digit == {DigitChars[i] : i \in 1..10}

Upper == {"A", "B", "C", "D", "E", "F", "G", "H", "I", "J", "K", "L", "M",
          "N", "O", "P", "Q", "R", "S", "T", "U", "V", "W", "X", "Y", "Z"}

Lower == {"a", "b", "c", "d", "e", "f", "g", "h", "i", "j", "k", "l", "m",
          "n", "o", "p", "q", "r", "s", "t", "u", "v", "w", "x", "y", "z"}

\* A letter outside ASCII (U+00E9), two bytes in UTF-8.
NonAsciiLetter == {"U+00E9"}

\* char::is_alphanumeric
is_alphanumeric(ch) == ch \in Digit \cup Upper \cup Lower \cup NonAsciiLetter

\* u8::is_ascii_alphanumeric of the first byte of the character
is_ascii_alphanumeric(ch) == ch \in Digit \cup Upper \cup Lower

\* str::len of one character: its length in bytes.
CharLen(ch) == IF ch \in NonAsciiLetter THEN 2 ELSE 1

\* str::len: the length of a text in bytes.
StrLen(s) == Len(s) + Cardinality({i \in DOMAIN s : CharLen(s[i]) = 2})

RECURSIVE ToDec(_)
\* Display for an unsigned integer: its decimal digits.
ToDec(n) == IF n < 10 THEN <<DigitChars[n + 1]>>
            ELSE ToDec(n \div 10) \o <<DigitChars[(n % 10) + 1]>>

RECURSIVE Flatten(_)
\* Concatenation of a sequence of texts.
Flatten(ss) == IF ss = <<>> THEN <<>> ELSE Head(ss) \o Flatten(Tail(ss))

\* ----------------------------------------------------------- color schemes

\* test_common.rs: TEST_ANSI_COLOR_SCHEME
TEST_ANSI_COLOR_SCHEME ==
    [default      |-> <<"{", "D", "E", "F", "}">>,
     location     |-> <<"{", "L", "O", "C", "}">>,
     fn_keyword   |-> <<"{", "F", "N", "}">>,
     func_name    |-> <<"{", "F", "N", "_", "N", "A", "M", "E", "}">>,
     func_braces  |-> <<"{", "F", "N", "_", "B", "R", "A", "C", "E", "}">>,
     value_braces |-> <<"{", "B", "R", "A", "C", "E", "}">>,
     ident        |-> <<"{", "I", "D", "E", "N", "T", "}">>,
     item         |-> <<"{", "I", "T", "E", "M", "}">>,
     boolean      |-> <<"{", "B", "O", "O", "L", "}">>,
     number       |-> <<"{", "N", "U", "M", "}">>,
     quoted       |-> <<"{", "Q", "U", "O", "T", "}">>,
     escaped      |-> <<"{", "E", "S", "C", "}">>]

\* color_scheme.rs: DEFAULT_DEFAULT_COLOR_SCHEME ("ESC" is the character U+001B)
DEFAULT_DEFAULT_COLOR_SCHEME ==
    [default      |-> <<"ESC", "[", "0", "m">>,
     location     |-> <<"ESC", "[", "9", "4", "m">>,
     fn_keyword   |-> <<"ESC", "[", "3", "3", "m">>,
     func_name    |-> <<"ESC", "[", "9", "3", "m">>,
     func_braces  |-> <<"ESC", "[", "0", "m">>,
     value_braces |-> <<"ESC", "[", "0", "m">>,
     ident        |-> <<"ESC", "[", "0", ";", "3", "3", "m">>,
     item         |-> <<"ESC", "[", "0", ";", "3", "3", "m">>,
     boolean      |-> <<"ESC", "[", "1", ";", "9", "3", "m">>,
     number       |-> <<"ESC", "[", "0", ";", "9", "6", "m">>,
     quoted       |-> <<"ESC", "[", "0", ";", "3", "2", "m">>,
     escaped      |-> <<"ESC", "[", "0", ";", "9", "5", "m">>]


\* ----------------------------------------------------------------- writers

\* test_util.rs: FixedBufWriter::new over a buffer of `len` bytes.
FixedBufWriter(len) ==
    [kind |-> "FixedBufWriter", buf |-> <<>>, cap |-> len,
     flush_ok |-> TRUE, flushes |-> 0, flush_failed |-> FALSE,
     flushed |-> 0, failed |-> FALSE, late |-> 0]

\* context_with_fmt.rs tests: ChannelWriter, a fmt::Write that never fails.
ChannelWriter ==
    [kind |-> "ChannelWriter", buf |-> <<>>, cap |-> 0,
     flush_ok |-> TRUE, flushes |-> 0, flush_failed |-> FALSE,
     flushed |-> 0, failed |-> FALSE, late |-> 0]

\* context_with_io.rs tests: Writer, an io::Write that never fails.
IoChannelWriter ==
    [kind |-> "IoChannelWriter", buf |-> <<>>, cap |-> 0,
     flush_ok |-> TRUE, flushes |-> 0, flush_failed |-> FALSE,
     flushed |-> 0, failed |-> FALSE, late |-> 0]

\* An io::Write over `len` bytes of storage whose flush may fail: write
\* accepts what still fits, so write_all fails once the storage is full.
IoLimitedWriter(len, flush_ok) ==
    [kind |-> "IoLimitedWriter", buf |-> <<>>, cap |-> len,
     flush_ok |-> flush_ok, flushes |-> 0, flush_failed |-> FALSE,
     flushed |-> 0, failed |-> FALSE, late |-> 0]

IsIoWriter(w) == w.kind \in {"IoChannelWriter", "IoLimitedWriter"}

\* The longest prefix of s that fits in `room` bytes.
FittingPrefix(s, room) ==
    LET fits == {k \in 0..Len(s) : StrLen(SubSeq(s, 1, k)) <= room}
    IN  SubSeq(s, 1, CHOOSE k \in fits : \A j \in fits : j <= k)

\* The writer after a write_str call that returned Err.
WriteFailed(w) == [w EXCEPT !.failed = TRUE, !.late = @ + (IF w.failed THEN 1 ELSE 0)]

\* The writer after a write_str call that returned Ok and stored s.
WriteStored(w, s) == [w EXCEPT !.buf = @ \o s, !.late = @ + (IF w.failed THEN 1 ELSE 0)]

\* FixedBufWriter::write_str that empties the buffer when s does not fit.
FixedBufWriter_write_str_rolling_back(w, s) ==
    LET from  == StrLen(w.buf)
        until == from + StrLen(s)
    IN  IF until > w.cap
        THEN [w |-> [WriteFailed(w) EXCEPT !.buf = <<>>], ok |-> FALSE]
        ELSE [w |-> WriteStored(w, s), ok |-> TRUE]

\* test_util.rs: FixedBufWriter::write_str: all of s, or nothing and Err.
FixedBufWriter_write_str(w, s) ==
    LET from  == StrLen(w.buf)
        until == from + StrLen(s)
    IN  IF until > w.cap
        THEN [w |-> WriteFailed(w), ok |-> FALSE]
        ELSE [w |-> WriteStored(w, s), ok |-> TRUE]

\* io::Write::write_all on the limited writer: the part that fits is stored.
IoLimitedWriter_write_all(w, s) ==
    LET room == w.cap - StrLen(w.buf)
    IN  IF StrLen(s) > room
        THEN [w |-> [WriteFailed(w) EXCEPT !.buf = @ \o FittingPrefix(s, room)],
              ok |-> FALSE]
        ELSE [w |-> WriteStored(w, s), ok |-> TRUE]

\* One write_str call on the writer behind a Formatter.
Writer_write_str(w, s) ==
    CASE w.kind = "FixedBufWriter"  -> FixedBufWriter_write_str(w, s)
      [] w.kind = "IoLimitedWriter" -> IoLimitedWriter_write_all(w, s)
      [] OTHER                      -> [w |-> WriteStored(w, s), ok |-> TRUE]

\* io::Write::flush; the call returns Err when flush_ok is not set.  `flushed`
\* is how much of the written text the last flush call found.
Writer_flush(w) ==
    [w EXCEPT !.flushes = @ + 1, !.flush_failed = @ \/ ~w.flush_ok, !.flushed = Len(w.buf)]

\* A Formatter over a writer, with the Result of the calls made so far.  Once
\* err is set the `?` after the failed call has returned from every enclosing
\* fmt: the calls that would have followed are not made.
Formatter(w) == [w |-> w, err |-> FALSE]

\* The Formatter after a write_str call with outcome r.
FormatterAfter(r) == [w |-> r.w, err |-> ~r.ok]

\* Formatter::write_str
write_str(f, s) == IF f.err THEN f ELSE FormatterAfter(Writer_write_str(f.w, s))

\* Literal texts of the format strings and of the call sites.
S_AT == <<"\n", " ", " ", " ", " ", "a", "t", " ">>

S_foo == <<"f", "o", "o">>

S_bar == <<"b", "a", "r">>

S_func1 == <<"f", "u", "n", "c", "1">>

S_func2 == <<"f", "u", "n", "c", "2">>

S_func3 == <<"f", "u", "n", "c", "3">>

S_file_fmt == <<"s", "r", "c", "/", "c", "o", "n", "t", "e", "x", "t", "_", "w", "i", "t", "h", "_", "f", "m", "t", ".", "r", "s">>

S_file_set == <<"s", "r", "c", "/", "s", "e", "t", "_", "c", "o", "l", "o", "r", "s", ".", "r", "s">>

\* ------------------------------------------------------------------ values

\* A usize value; its Debug output is one write_str of its decimal digits.
UsizeValue(n) == [kind |-> "usize", n |-> n]

\* A &str value of printable characters; its Debug output is the opening
\* quote, the text, the closing quote.
StrValue(s) == [kind |-> "str", s |-> s]

\* non_exhaustive.rs: NonExhaustiveMarker
NonExhaustiveMarker == [kind |-> "NonExhaustiveMarker"]

\* A value whose Debug impl writes the given chunks, one write_str each
\* (test_util.rs: TransparentDebug writes its text in one chunk).
DebugValue(chunks) == [kind |-> "Debug", chunks |-> chunks]

\* The write_str calls made by <value as Debug>::fmt.
DebugChunks(v) ==
    CASE v.kind = "usize"               -> <<ToDec(v.n)>>
      [] v.kind = "str"                 -> <<<<"\"">>, v.s, <<"\"">>>>
      [] v.kind = "NonExhaustiveMarker" -> <<<<".", ".", ".">>>>
      [] OTHER                          -> v.chunks

RECURSIVE write_chunks(_, _)
\* write!(f, "{:?}", value): the value's chunks, stopping at the first Err.
write_chunks(f, chunks) ==
    IF chunks = <<>> THEN f
    ELSE write_chunks(write_str(f, Head(chunks)), Tail(chunks))

\* arg.rs: UnwindContextArg::new
UnwindContextArg(name, value) == [name |-> name, value |-> value]

\* arg.rs: if let Some(name) = &self.name { write!(f, "{name}: ")?; }
write_name(f, name) ==
    IF name = None THEN f
    ELSE write_str(write_str(f, Unwrap(name)), <<":", " ">>)

\* UnwindContextArg_fmt that writes the ": " of the name also when there is
\* no name.
UnwindContextArg_fmt_colon_always(arg, f) ==
    write_chunks(write_str(IF arg.name = None THEN f ELSE write_str(f, Unwrap(arg.name)),
                           <<":", " ">>),
                 DebugChunks(arg.value))

\* arg.rs: impl Debug for UnwindContextArg
UnwindContextArg_fmt(arg, f) ==
    write_chunks(write_name(f, arg.name), DebugChunks(arg.value))

\* -------------------------------------------------------------- colorizer

Braces == {"(", ")", "[", "]", "{", "}"}

NumberStart == Digit \cup {"+", "-", "."}

\* ColoredWriterMode::style in which QuotedEnd has the style Default.
style_quoted_end_as_default(mode) ==
    CASE mode \in {"DoubleQuoted", "SingleQuoted"} -> "Quoted"
      [] mode = "QuotedEnd" -> "Default"
      [] mode \in {"DoubleQuotedEscapeChar", "DoubleQuotedEscaped",
                   "SingleQuotedEscapeChar", "SingleQuotedEscaped"} -> "Escaped"
      [] OTHER -> mode

\* arg.rs: ColoredWriterMode::style
style(mode) ==
    CASE mode \in {"DoubleQuoted", "SingleQuoted", "QuotedEnd"} -> "Quoted"
      [] mode \in {"DoubleQuotedEscapeChar", "DoubleQuotedEscaped",
                   "SingleQuotedEscapeChar", "SingleQuotedEscaped"} -> "Escaped"
      [] OTHER -> mode

\* arg.rs: ColoredWriterModeStyle::ansi_style
ansi_style(st, color_scheme) ==
    CASE st = "Default" -> color_scheme.default
      [] st = "Ident"   -> color_scheme.ident
      [] st = "Item"    -> color_scheme.item
      [] st = "Boolean" -> color_scheme.boolean
      [] st = "Number"  -> color_scheme.number
      [] st = "Quoted"  -> color_scheme.quoted
      [] st = "Escaped" -> color_scheme.escaped
      [] st = "Brace"   -> color_scheme.value_braces

\* The keyword kw at 1-based position `offset` of s, followed by the end of
\* s or by a byte that is neither ASCII alphanumeric nor '_'.
match_ident(s, offset, kw) ==
    /\ offset + Len(kw) - 1 <= Len(s)
    /\ SubSeq(s, offset, offset + Len(kw) - 1) = kw
    /\ \/ offset + Len(kw) > Len(s)
       \/ /\ ~is_ascii_alphanumeric(s[offset + Len(kw)])
          /\ s[offset + Len(kw)] # "_"

\* arg.rs: match_true_ident
match_true_ident(s, offset) == match_ident(s, offset, <<"t", "r", "u", "e">>)

\* arg.rs: match_false_ident
match_false_ident(s, offset) == match_ident(s, offset, <<"f", "a", "l", "s", "e">>)

\* arg.rs: ColoredWriter::write_str, arm Default | QuotedEnd | Brace
next_mode_default(ch, s, offset) ==
    CASE ch \in NumberStart -> "Number"
      [] ch \in Braces      -> "Brace"
      [] ch = "_"           -> "Ident"
      [] ch = "\""          -> "DoubleQuoted"
      [] ch = "'"           -> "SingleQuoted"
      [] ch \in Upper       -> "Item"
      [] OTHER ->
           IF is_alphanumeric(ch)
           THEN IF match_true_ident(s, offset) \/ match_false_ident(s, offset)
                THEN "Boolean" ELSE "Ident"
           ELSE "Default"

\* The arm Ident | Item with the first rows of the arm Boolean: a digit or a
\* sign starts a number.
next_mode_ident_number_starts(mode, ch) ==
    CASE ch \in NumberStart -> "Number"
      [] ch \in Braces     -> "Brace"
      [] ch \in {"#", "_"} -> mode
      [] ch = "\""         -> "DoubleQuoted"
      [] ch = "'"          -> "SingleQuoted"
      [] OTHER -> IF is_alphanumeric(ch) THEN mode ELSE "Default"

\* arg.rs: ColoredWriter::write_str, arm Ident | Item
next_mode_ident(mode, ch) ==
    CASE ch \in Braces     -> "Brace"
      [] ch \in {"#", "_"} -> mode
      [] ch = "\""         -> "DoubleQuoted"
      [] ch = "'"          -> "SingleQuoted"
      [] OTHER -> IF is_alphanumeric(ch) THEN mode ELSE "Default"

\* The arm Boolean with the `#` | `_` row of the arm Ident | Item: the mode
\* is kept.
next_mode_boolean_keeps_on_underscore(ch) ==
    CASE ch \in NumberStart -> "Number"
      [] ch \in Braces      -> "Brace"
      [] ch \in {"#", "_"}  -> "Boolean"
      [] ch = "\""          -> "DoubleQuoted"
      [] ch = "'"           -> "SingleQuoted"
      [] OTHER -> IF is_alphanumeric(ch) THEN "Boolean" ELSE "Default"

\* arg.rs: ColoredWriter::write_str, arm Boolean
next_mode_boolean(ch) ==
    CASE ch \in NumberStart -> "Number"
      [] ch \in Braces      -> "Brace"
      [] ch \in {"#", "_"}  -> "Ident"
      [] ch = "\""          -> "DoubleQuoted"
      [] ch = "'"           -> "SingleQuoted"
      [] OTHER -> IF is_alphanumeric(ch) THEN "Boolean" ELSE "Default"

\* The arm Number in which a letter keeps the number going (as in 0xff).
next_mode_number_keeps_on_letter(ch) ==
    CASE ch \in NumberStart \cup {"_"} -> "Number"
      [] ch \in Braces                 -> "Brace"
      [] ch = "\""                     -> "DoubleQuoted"
      [] ch = "'"                      -> "SingleQuoted"
      [] OTHER -> IF is_alphanumeric(ch) THEN "Number" ELSE "Default"

\* arg.rs: ColoredWriter::write_str, arm Number
next_mode_number(ch) ==
    CASE ch \in NumberStart \cup {"_"} -> "Number"
      [] ch \in Braces                 -> "Brace"
      [] ch = "\""                     -> "DoubleQuoted"
      [] ch = "'"                      -> "SingleQuoted"
      [] OTHER -> IF is_alphanumeric(ch) THEN "Ident" ELSE "Default"

\* The quoted arms in which either quote character closes a run.
next_mode_quoted_any_quote_closes(mode, ch) ==
    CASE mode \in {"DoubleQuoted", "DoubleQuotedEscaped"} ->
           (CASE ch \in {"\"", "'"} -> "QuotedEnd"
              [] ch = "\\" -> "DoubleQuotedEscapeChar"
              [] OTHER     -> "DoubleQuoted")
      [] mode = "DoubleQuotedEscapeChar" -> "DoubleQuotedEscaped"
      [] mode \in {"SingleQuoted", "SingleQuotedEscaped"} ->
           (CASE ch \in {"\"", "'"} -> "QuotedEnd"
              [] ch = "\\" -> "SingleQuotedEscapeChar"
              [] OTHER     -> "SingleQuoted")
      [] mode = "SingleQuotedEscapeChar" -> "SingleQuotedEscaped"

\* next_mode_quoted in which a quote closes the run also right after a
\* backslash.
next_mode_quoted_quote_always_closes(mode, ch) ==
    CASE mode \in {"DoubleQuoted", "DoubleQuotedEscaped", "DoubleQuotedEscapeChar"} ->
           (CASE ch = "\"" -> "QuotedEnd"
              [] mode = "DoubleQuotedEscapeChar" -> "DoubleQuotedEscaped"
              [] ch = "\\" -> "DoubleQuotedEscapeChar"
              [] OTHER     -> "DoubleQuoted")
      [] OTHER ->
           (CASE ch = "'"  -> "QuotedEnd"
              [] mode = "SingleQuotedEscapeChar" -> "SingleQuotedEscaped"
              [] ch = "\\" -> "SingleQuotedEscapeChar"
              [] OTHER     -> "SingleQuoted")

\* arg.rs: ColoredWriter::write_str, the quoted arms
next_mode_quoted(mode, ch) ==
    CASE mode \in {"DoubleQuoted", "DoubleQuotedEscaped"} ->
           (CASE ch = "\"" -> "QuotedEnd"
              [] ch = "\\" -> "DoubleQuotedEscapeChar"
              [] OTHER     -> "DoubleQuoted")
      [] mode = "DoubleQuotedEscapeChar" -> "DoubleQuotedEscaped"
      [] mode \in {"SingleQuoted", "SingleQuotedEscaped"} ->
           (CASE ch = "'"  -> "QuotedEnd"
              [] ch = "\\" -> "SingleQuotedEscapeChar"
              [] OTHER     -> "SingleQuoted")
      [] mode = "SingleQuotedEscapeChar" -> "SingleQuotedEscaped"

\* arg.rs: ColoredWriter::write_str, the match on self.mode
next_mode(mode, ch, s, offset) ==
    CASE mode \in {"Default", "QuotedEnd", "Brace"} -> next_mode_default(ch, s, offset)
      [] mode \in {"Ident", "Item"}                 -> next_mode_ident(mode, ch)
      [] mode = "Boolean"                           -> next_mode_boolean(ch)
      [] mode = "Number"                            -> next_mode_number(ch)
      [] OTHER                                      -> next_mode_quoted(mode, ch)

\* arg.rs: the ColoredWriter built in fmt_colored
ColoredWriter(f, color_scheme) ==
    [writer |-> f, mode |-> "Default", color_scheme |-> color_scheme]

\* ColoredWriter_put that writes the character only when no style escape was
\* written.
ColoredWriter_put_escape_or_char(cw, ch, mode) ==
    [cw EXCEPT !.mode = mode,
               !.writer = IF style(cw.mode) # style(mode)
                          THEN write_str(@, ansi_style(style(mode), cw.color_scheme))
                          ELSE write_str(@, <<ch>>)]

\* ColoredWriter_put that compares the modes, not their styles.
ColoredWriter_put_on_mode_change(cw, ch, mode) ==
    [cw EXCEPT !.mode = mode,
               !.writer = write_str(IF cw.mode # mode
                                    THEN write_str(@, ansi_style(style(mode), cw.color_scheme))
                                    ELSE @,
                                    <<ch>>)]

\* arg.rs: ColoredWriter::write_str, the end of one iteration of the loop:
\* the style escape is written if the style changed, then the character.
ColoredWriter_put(cw, ch, mode) ==
    [cw EXCEPT !.mode = mode,
               !.writer = write_str(IF style(cw.mode) # style(mode)
                                    THEN write_str(@, ansi_style(style(mode), cw.color_scheme))
                                    ELSE @,
                                    <<ch>>)]

\* arg.rs: ColoredWriter::write_str, one iteration of the loop over the
\* characters.
ColoredWriter_write_char(cw, s, offset) ==
    ColoredWriter_put(cw, s[offset], next_mode(cw.mode, s[offset], s, offset))

RECURSIVE ColoredWriter_write_from(_, _, _)
\* arg.rs: ColoredWriter::write_str, the loop from position `offset` on.
ColoredWriter_write_from(cw, s, offset) ==
    IF offset > Len(s) \/ cw.writer.err THEN cw
    ELSE ColoredWriter_write_from(ColoredWriter_write_char(cw, s, offset), s, offset + 1)

\* arg.rs: ColoredWriter::write_str
ColoredWriter_write_str(cw, s) == ColoredWriter_write_from(cw, s, 1)

RECURSIVE ColoredWriter_write_chunks(_, _)
\* write!(writer, "{:?}", self.value): the value's chunks through the
\* ColoredWriter, stopping at the first Err.
ColoredWriter_write_chunks(cw, chunks) ==
    IF chunks = <<>> \/ cw.writer.err THEN cw
    ELSE ColoredWriter_write_chunks(ColoredWriter_write_str(cw, Head(chunks)), Tail(chunks))

\* arg.rs: ColoredWriter::reset, after its write of the default escape.
ColoredWriter_after_reset(cw, f) ==
    [cw EXCEPT !.writer = f, !.mode = IF f.err THEN @ ELSE "Default"]

\* ColoredWriter::reset that writes the default escape whatever the mode.
ColoredWriter_reset_in_every_mode(cw) ==
    IF cw.writer.err THEN cw
    ELSE ColoredWriter_after_reset(cw, write_str(cw.writer, cw.color_scheme.default))

\* ColoredWriter::reset that is also run after a failed write_str, and then
\* writes the default escape to the sink that has already failed.
ColoredWriter_reset_after_error(cw) ==
    IF style(cw.mode) = "Default" THEN cw
    ELSE IF cw.writer.err
         THEN [cw EXCEPT !.writer =
                  [w |-> Writer_write_str(cw.writer.w, cw.color_scheme.default).w,
                   err |-> TRUE]]
         ELSE ColoredWriter_after_reset(cw, write_str(cw.writer, cw.color_scheme.default))

\* arg.rs: ColoredWriter::reset
ColoredWriter_reset(cw) ==
    IF cw.writer.err \/ style(cw.mode) = "Default" THEN cw
    ELSE ColoredWriter_after_reset(cw, write_str(cw.writer, cw.color_scheme.default))

\* fmt_colored of UnwindContextArg that returns without writer.reset().
UnwindContextArg_fmt_colored_without_reset(arg, f, color_scheme) ==
    ColoredWriter_write_chunks(ColoredWriter(write_name(f, arg.name), color_scheme),
                               DebugChunks(arg.value)).writer

\* arg.rs: impl DebugAnsiColored for UnwindContextArg
UnwindContextArg_fmt_colored(arg, f, color_scheme) ==
    ColoredWriter_reset(
        ColoredWriter_write_chunks(ColoredWriter(write_name(f, arg.name), color_scheme),
                                   DebugChunks(arg.value))).writer

\* ------------------------------------------------- argument lists, functions

RECURSIVE UnwindContextArgs_fmt(_, _)
\* args.rs: impl Debug for UnwindContextArgs: (), (First, ()), (First, (Second, Rest))
UnwindContextArgs_fmt(args, f) ==
    IF args = <<>> THEN f
    ELSE IF Len(args) = 1 THEN UnwindContextArg_fmt(args[1], f)
    ELSE UnwindContextArgs_fmt(Tail(args),
                               write_str(UnwindContextArg_fmt(args[1], f), <<",", " ">>))

RECURSIVE UnwindContextArgs_fmt_colored(_, _, _)
\* args.rs: impl DebugAnsiColored for UnwindContextArgs
UnwindContextArgs_fmt_colored(args, f, color_scheme) ==
    IF args = <<>> THEN f
    ELSE IF Len(args) = 1 THEN UnwindContextArg_fmt_colored(args[1], f, color_scheme)
    ELSE UnwindContextArgs_fmt_colored(
             Tail(args),
             write_str(UnwindContextArg_fmt_colored(args[1], f, color_scheme), <<",", " ">>),
             color_scheme)

\* args.rs: UnwindContextArgs::new
UnwindContextArgs(args) == [type |-> "UnwindContextArgs", name |-> None, args |-> args]

\* func.rs: UnwindContextFunc::new
UnwindContextFunc(name, args) == [type |-> "UnwindContextFunc", name |-> name, args |-> args]

\* UnwindContextFunc_fmt that writes the ")" whatever the argument list
\* returned.
UnwindContextFunc_fmt_ignoring_args_error(func, f) ==
    write_str(
      Formatter(UnwindContextArgs_fmt(func.args,
        write_str(write_str(write_str(f, <<"f", "n", " ">>), func.name), <<"(">>)).w),
      <<")">>)

\* UnwindContextFunc_fmt that leaves the parentheses out when there are no
\* arguments.
UnwindContextFunc_fmt_bare_when_empty(func, f) ==
    IF func.args = <<>>
    THEN write_str(write_str(f, <<"f", "n", " ">>), func.name)
    ELSE write_str(
           UnwindContextArgs_fmt(func.args,
             write_str(write_str(write_str(f, <<"f", "n", " ">>), func.name), <<"(">>)),
           <<")">>)

\* func.rs: impl Debug for UnwindContextFunc: "fn {}({:?})"
UnwindContextFunc_fmt(func, f) ==
    write_str(
      UnwindContextArgs_fmt(func.args,
        write_str(write_str(write_str(f, <<"f", "n", " ">>), func.name), <<"(">>)),
      <<")">>)

\* func.rs: the opening of the colored form: "{}fn {}{}{}({}"
UnwindContextFunc_fmt_colored_open(func, f, color_scheme) ==
    write_str(write_str(write_str(write_str(write_str(write_str(write_str(f,
        color_scheme.fn_keyword),
        <<"f", "n", " ">>),
        color_scheme.func_name),
        func.name),
        color_scheme.func_braces),
        <<"(">>),
        color_scheme.default)

\* UnwindContextFunc_fmt_colored that writes no escapes between "(" and ")"
\* when there are no arguments.
UnwindContextFunc_fmt_colored_short_when_empty(func, f, color_scheme) ==
    IF func.args = <<>>
    THEN write_str(write_str(write_str(write_str(write_str(write_str(f,
             color_scheme.fn_keyword),
             <<"f", "n", " ">>),
             color_scheme.func_name),
             func.name),
             color_scheme.func_braces),
             <<"(", ")">>)
    ELSE write_str(write_str(write_str(
             UnwindContextArgs_fmt_colored(func.args,
                 UnwindContextFunc_fmt_colored_open(func, f, color_scheme), color_scheme),
             color_scheme.func_braces),
             <<")">>),
             color_scheme.default)

\* func.rs: impl DebugAnsiColored for UnwindContextFunc: "{}fn {}{}{}({}{:?}{}){}"
UnwindContextFunc_fmt_colored(func, f, color_scheme) ==
    write_str(write_str(write_str(
        UnwindContextArgs_fmt_colored(func.args,
            UnwindContextFunc_fmt_colored_open(func, f, color_scheme), color_scheme),
        color_scheme.func_braces),
        <<")">>),
        color_scheme.default)

\* <T as Debug>::fmt of a guard's data
Data_fmt(data, f) ==
    IF data.type = "UnwindContextFunc" THEN UnwindContextFunc_fmt(data, f)
    ELSE UnwindContextArgs_fmt(data.args, f)

\* colored.rs: impl Debug for AnsiColored
AnsiColored_fmt(data, f, color_scheme) ==
    IF data.type = "UnwindContextFunc"
    THEN UnwindContextFunc_fmt_colored(data, f, color_scheme)
    ELSE UnwindContextArgs_fmt_colored(data.args, f, color_scheme)

\* ------------------------------------------------------------ unwind guards

NoGuard == [type |-> "NoGuard"]

\* core::panic::Location
Location(file, line, column) == [file |-> file, line |-> line, column |-> column]

\* context_with_fmt.rs: UnwindContextWithFmt::new
UnwindContextWithFmt_new(data, writer, panic_detector, color_scheme, location) ==
    [type |-> "UnwindContextWithFmt", data |-> data, writer |-> writer,
     panic_detector |-> panic_detector, color_scheme |-> color_scheme,
     location |-> location]

\* context_with_io.rs: UnwindContextWithIo::new
UnwindContextWithIo_new(data, writer, panic_detector, color_scheme, location) ==
    [type |-> "UnwindContextWithIo", data |-> data, writer |-> writer,
     panic_detector |-> panic_detector, color_scheme |-> color_scheme,
     location |-> location]

\* "{}:{}:{}" of file, line, column
write_location(f, location) ==
    write_str(write_str(write_str(write_str(write_str(f,
        location.file),
        <<":">>),
        ToDec(location.line)),
        <<":">>),
        ToDec(location.column))

\* writeln_colored without the default escape after the location.
writeln_colored_no_reset(g, f, color_scheme) ==
    write_str(
        write_location(
            write_str(write_str(AnsiColored_fmt(g.data, f, color_scheme), S_AT),
                      color_scheme.location),
            g.location),
        <<"\n">>)

\* writeln!(self.writer, "{:?}\n    at {}{}:{}:{}{}", AnsiColored::new(..), ..)
writeln_colored(g, f, color_scheme) ==
    write_str(write_str(
        write_location(
            write_str(write_str(AnsiColored_fmt(g.data, f, color_scheme), S_AT),
                      color_scheme.location),
            g.location),
        color_scheme.default),
        <<"\n">>)

\* writeln_plain that writes the final newline whatever the calls before returned.
writeln_plain_newline_anyway(g, f) ==
    write_str(Formatter(write_location(write_str(Data_fmt(g.data, f), S_AT), g.location).w),
              <<"\n">>)

\* writeln!(self.writer, "{:?}\n    at {}:{}:{}", self.data, ..)
writeln_plain(g, f) ==
    write_str(write_location(write_str(Data_fmt(g.data, f), S_AT), g.location), <<"\n">>)

\* print() that writes the record twice.
UnwindContextWithFmt_print_twice(g, w) ==
    IF g.color_scheme # None
    THEN writeln_colored(g, writeln_colored(g, Formatter(w), Unwrap(g.color_scheme)),
                         Unwrap(g.color_scheme)).w
    ELSE writeln_plain(g, writeln_plain(g, Formatter(w))).w

\* context_with_fmt.rs: UnwindContextWithFmt::print; the writer afterwards
\* (`let _ =` drops the Result).
UnwindContextWithFmt_print(g, w) ==
    IF g.color_scheme # None
    THEN writeln_colored(g, Formatter(w), Unwrap(g.color_scheme)).w
    ELSE writeln_plain(g, Formatter(w)).w

\* UnwindContextWithIo::print that flushes before it writes the record.
UnwindContextWithIo_print_flush_first(g, w) ==
    IF g.color_scheme # None
    THEN writeln_colored(g, Formatter(Writer_flush(w)), Unwrap(g.color_scheme)).w
    ELSE writeln_plain(g, Formatter(Writer_flush(w))).w

\* context_with_io.rs: UnwindContextWithIo::print: the same, then
\* `let _ = self.writer.flush()`
UnwindContextWithIo_print(g, w) ==
    Writer_flush(IF g.color_scheme # None
                 THEN writeln_colored(g, Formatter(w), Unwrap(g.color_scheme)).w
                 ELSE writeln_plain(g, Formatter(w)).w)

\* print() that renders with the palette the process-wide settings give at
\* the time of the call.
Guard_print_with_current_settings(g, w) ==
    IF SHOULD_COLORIZE
    THEN writeln_colored(g, Formatter(w),
                         IF DEFAULT_COLOR_SCHEME = None THEN DEFAULT_DEFAULT_COLOR_SCHEME
                         ELSE Unwrap(DEFAULT_COLOR_SCHEME)).w
    ELSE writeln_plain(g, Formatter(w)).w

\* print() of either guard type
Guard_print(g, w) ==
    IF g.type = "UnwindContextWithIo" THEN UnwindContextWithIo_print(g, w)
    ELSE UnwindContextWithFmt_print(g, w)

\* is_panicking() that never asks the thread.
PanicDetector_is_panicking_flag_only(panic_detector, thread_panicking, flag) == flag

\* panic_detector.rs: PanicDetector::is_panicking of StdPanicDetector and
\* of the tests' DummyPanicDetector
PanicDetector_is_panicking(panic_detector, thread_panicking, flag) ==
    IF panic_detector = "StdPanicDetector" THEN thread_panicking ELSE flag

\* Guard_drop without the is_panicking() test.
Guard_drop_unconditional(g, w, thread_panicking, flag) ==
    IF g # NoGuard THEN Guard_print(g, w) ELSE w

\* impl Drop: the guard's writer after drop(); NoGuard has no destructor.
Guard_drop(g, w, thread_panicking, flag) ==
    IF g # NoGuard /\ PanicDetector_is_panicking(g.panic_detector, thread_panicking, flag)
    THEN Guard_print(g, w)
    ELSE w

\* ------------------------------------------------------ process-wide settings

\* set_colors.rs: are_colors_enabled
are_colors_enabled == SHOULD_COLORIZE

\* set_colors.rs: get_default_ansi_color_scheme_impl (feature custom-default-colors)
get_default_ansi_color_scheme_impl ==
    IF DEFAULT_COLOR_SCHEME = None THEN DEFAULT_DEFAULT_COLOR_SCHEME
    ELSE Unwrap(DEFAULT_COLOR_SCHEME)

\* set_colors.rs: get_default_color_scheme
get_default_color_scheme == get_default_ansi_color_scheme_impl

\* set_colors.rs: get_default_color_scheme_if_enabled
get_default_color_scheme_if_enabled ==
    IF are_colors_enabled THEN Some(get_default_color_scheme) ELSE None

\* The macro argument `color_scheme = ...` left out.
NotGiven == <<>>

\* The macro argument `color_scheme = expr`.
Given(expr) == <<expr>>

\* expr_or_default_expr! that also replaces an explicit None.
expr_or_default_expr_unless_some(expr, default) ==
    IF expr = NotGiven \/ expr[1] = None THEN default ELSE expr[1]

\* util_macros.rs: expr_or_default_expr!
expr_or_default_expr(expr, default) == IF expr = NotGiven THEN default ELSE expr[1]

\* context_with_fmt.rs / context_with_io.rs: unwind_context_with_fmt!,
\* unwind_context_with_io!
unwind_context_with(type, data, writer, panic_detector, color_arg, location) ==
    LET color_scheme == expr_or_default_expr(color_arg, get_default_color_scheme_if_enabled)
    IN  IF type = "UnwindContextWithIo"
        THEN UnwindContextWithIo_new(data, writer, panic_detector, color_scheme, location)
        ELSE UnwindContextWithFmt_new(data, writer, panic_detector, color_scheme, location)

\* context_data.rs: build_unwind_context_data!(fn(foo, bar)), the name from func_name!()
build_fn_foo_bar(name, foo, bar) ==
    UnwindContextFunc(name, <<UnwindContextArg(Some(S_foo), UsizeValue(foo)),
                              UnwindContextArg(Some(S_bar), StrValue(bar))>>)

\* context_data.rs: build_unwind_context_data!(foo, bar)
build_foo_bar(foo, bar) ==
    UnwindContextArgs(<<UnwindContextArg(Some(S_foo), UsizeValue(foo)),
                        UnwindContextArg(Some(S_bar), StrValue(bar))>>)

\* ---------------------------------------------------------------- scenario

\* usize::checked_mul, checked_sub, with usize narrowed to USIZE_BITS bits.
checked_mul(a, b) == IF a * b < 2^USIZE_BITS THEN Some(a * b) ELSE None

checked_sub(a, b) == IF a >= b THEN Some(a - b) ELSE None

FuncNames == <<S_func1, S_func2, S_func3>>

\* The macro call sites of func1, func2, func3 and of the test body.
FuncLocation(k) == Location(S_file_fmt, <<314, 340, 363>>[k], 20)

MainLocation == Location(S_file_set, 273, 23)

\* Arguments of the tests' calls of func1.
Inputs == {[foo |-> 1000, bar |-> <<"a", "b", "c", "d", "e", "f">>],
           [foo |-> 1000, bar |-> <<"a", "b">>],
           [foo |-> 1000, bar |-> <<"a">>],
           [foo |-> 1000, bar |-> <<>>],
           [foo |-> 0,    bar |-> <<"a", "b", "c", "d", "e", "f">>]}

\* The writer handed to the guard of func k (0: the test body), new and empty.
NewWriter(c, k) ==
    CASE c.writer = "FixedBufWriter"  -> FixedBufWriter(c.buf_len[k])
      [] c.writer = "ChannelWriter"   -> ChannelWriter
      [] c.writer = "IoChannelWriter" -> IoChannelWriter
      [] OTHER                        -> IoLimitedWriter(c.buf_len[k], c.flush_ok)

\* The guard type that goes with a writer: fmt::Write or io::Write.
GuardType(c) ==
    IF c.writer \in {"IoChannelWriter", "IoLimitedWriter"}
    THEN "UnwindContextWithIo" ELSE "UnwindContextWithFmt"

\* The writer of the guard of func k: the channel writers are clones of one
\* sender, the others are separate.
SinkOf(k) == IF cfg.writer \in {"ChannelWriter", "IoChannelWriter"} THEN 1 ELSE k

Frame(fn, foo, bar, ctx, color_arg) ==
    [fn |-> fn, foo |-> foo, bar |-> bar, ctx |-> ctx, color_arg |-> color_arg]

Top == frames[Len(frames)]

Depth == Len(frames) - 1

Pop(s) == SubSeq(s, 1, Len(s) - 1)

\* A frame whose guard shows the values computed for the callee.
FuncFrame_showing_callee_values(k, foo, bar) ==
    Frame(k, foo, bar,
          unwind_context_with(GuardType(cfg),
                              build_fn_foo_bar(FuncNames[k], (foo * (k + 1)) % 2^USIZE_BITS,
                                               IF bar = <<>> THEN bar ELSE Tail(bar)),
                              SinkOf(k), cfg.panic_detector, Given(cfg.color_scheme),
                              FuncLocation(k)),
          Given(cfg.color_scheme))

\* The frame of func k, entered with (foo, bar): its first statement creates
\* the guard over its parameters.
FuncFrame(k, foo, bar) ==
    Frame(k, foo, bar,
          unwind_context_with(GuardType(cfg), build_fn_foo_bar(FuncNames[k], foo, bar),
                              SinkOf(k), cfg.panic_detector, Given(cfg.color_scheme),
                              FuncLocation(k)),
          Given(cfg.color_scheme))

\* The writers after the top frame is left and its guard dropped.
DropTop ==
    IF Top.ctx = NoGuard THEN sinks
    ELSE [sinks EXCEPT ![Top.ctx.writer] =
              Guard_drop(Top.ctx, @, panicking, is_panicking)]

ColorArgs == {NotGiven, Given(None), Given(Some(TEST_ANSI_COLOR_SCHEME))}

Settings == <<SHOULD_COLORIZE, DEFAULT_COLOR_SCHEME, last_enabled, last_scheme>>

\* The variables of the threads that call the settings' functions.
Threading == <<threads, calls>>

\* The variables of the debug_fmt calls of the renderers' tests.
Formatting == <<fmt_value, buffer, fmt_result, colored_writer, cw_offset, fmt_writer>>

\* The test body creates a guard over (foo, bar) with a new writer.
MainCreateGuard(color_arg) ==
    /\ pc = "main"
    /\ Top.ctx = NoGuard
    /\ sinks' = [sinks EXCEPT ![0] = NewWriter(cfg, 0)]
    /\ frames' = <<Frame(0, cfg.foo, cfg.bar,
                         unwind_context_with(GuardType(cfg), build_foo_bar(cfg.foo, cfg.bar),
                                             0, cfg.panic_detector, color_arg, MainLocation),
                         color_arg)>>
    /\ reported' = <<PanicDetector_is_panicking(cfg.panic_detector, panicking, is_panicking)>>
    /\ UNCHANGED <<panicking, is_panicking, pc, result, panic_origin, prints, cfg, Settings,
                   Formatting, Threading>>

\* drop(ctx) that renders when the detector reported "panicking" as the guard
\* was created.
MainDropGuard_deciding_at_creation ==
    /\ pc = "main"
    /\ Top.ctx # NoGuard
    /\ sinks' = IF reported[1] THEN [sinks EXCEPT ![Top.ctx.writer] = Guard_print(Top.ctx, @)]
                ELSE sinks
    /\ frames' = <<Frame(0, cfg.foo, cfg.bar, NoGuard, NotGiven)>>
    /\ reported' = Append(reported,
                          PanicDetector_is_panicking(cfg.panic_detector, panicking, is_panicking))
    /\ UNCHANGED <<panicking, is_panicking, pc, result, panic_origin, prints, cfg, Settings,
                   Formatting, Threading>>

\* The test body drops its guard: drop(ctx).
MainDropGuard ==
    /\ pc = "main"
    /\ Top.ctx # NoGuard
    /\ sinks' = DropTop
    /\ frames' = <<Frame(0, cfg.foo, cfg.bar, NoGuard, NotGiven)>>
    /\ reported' = Append(reported,
                          PanicDetector_is_panicking(cfg.panic_detector, panicking, is_panicking))
    /\ UNCHANGED <<panicking, is_panicking, pc, result, panic_origin, prints, cfg, Settings,
                   Formatting, Threading>>

\* ctx.print() that consumes the guard.
PrintGuard_consumes ==
    /\ pc \in {"main", "call"}
    /\ Top.ctx # NoGuard
    /\ prints < MaxPrints
    /\ prints' = prints + 1
    /\ sinks' = [sinks EXCEPT ![Top.ctx.writer] = Guard_print(Top.ctx, @)]
    /\ frames' = [frames EXCEPT ![Len(frames)].ctx = NoGuard]
    /\ UNCHANGED <<panicking, is_panicking, pc, result, panic_origin, cfg, Settings,
                   Formatting, Threading, reported>>

\* ctx.print() that takes the color scheme out of the guard.
PrintGuard_taking_color_scheme ==
    /\ pc \in {"main", "call"}
    /\ Top.ctx # NoGuard
    /\ prints < MaxPrints
    /\ prints' = prints + 1
    /\ sinks' = [sinks EXCEPT ![Top.ctx.writer] = Guard_print(Top.ctx, @)]
    /\ frames' = [frames EXCEPT ![Len(frames)].ctx.color_scheme = None]
    /\ UNCHANGED <<panicking, is_panicking, pc, result, panic_origin, cfg, Settings,
                   Formatting, Threading, reported>>

\* ctx.print() on the guard of the running function.
PrintGuard ==
    /\ pc \in {"main", "call"}
    /\ Top.ctx # NoGuard
    /\ prints < MaxPrints
    /\ prints' = prints + 1
    /\ sinks' = [sinks EXCEPT ![Top.ctx.writer] = Guard_print(Top.ctx, @)]
    /\ UNCHANGED <<frames, panicking, is_panicking, pc, result, panic_origin, cfg, Settings,
                   Formatting, Threading, reported>>

\* catch_unwind(|| func1(foo, bar, ..)): func1 is entered.
CallFunc1 ==
    /\ pc = "main"
    /\ frames' = Append(frames, FuncFrame(1, cfg.foo, cfg.bar))
    /\ pc' = "call"
    /\ UNCHANGED <<sinks, panicking, is_panicking, result, panic_origin, prints, cfg, Settings,
                   Formatting, Threading, reported>>

\* CallNext that hands bar on without slicing it.
CallNext_without_slicing ==
    /\ pc = "call"
    /\ Top.fn \in {1, 2}
    /\ LET foo == checked_mul(Top.foo, Top.fn + 1)
       IN  /\ foo # None
           /\ Top.bar # <<>>
           /\ frames' = Append(frames, FuncFrame(Top.fn + 1, Unwrap(foo), Top.bar))
    /\ UNCHANGED <<sinks, panicking, is_panicking, pc, result, panic_origin, prints, cfg, Settings,
                   Formatting, Threading, reported>>

\* func1 / func2: the callee's arguments are computed and the callee entered.
CallNext ==
    /\ pc = "call"
    /\ Top.fn \in {1, 2}
    /\ LET foo == checked_mul(Top.foo, Top.fn + 1)
       IN  /\ foo # None
           /\ Top.bar # <<>>
           /\ frames' = Append(frames, FuncFrame(Top.fn + 1, Unwrap(foo), Tail(Top.bar)))
    /\ UNCHANGED <<sinks, panicking, is_panicking, pc, result, panic_origin, prints, cfg, Settings,
                   Formatting, Threading, reported>>

\* func1 / func2: checked_mul(..).unwrap() or &bar[1..] panics; func3:
\* checked_sub(..).unwrap() panics.  The thread starts unwinding.
Panic ==
    /\ pc = "call"
    /\ \/ Top.fn \in {1, 2} /\ (checked_mul(Top.foo, Top.fn + 1) = None \/ Top.bar = <<>>)
       \/ Top.fn = 3 /\ checked_sub(Top.foo, StrLen(Top.bar)) = None
    /\ panicking' = TRUE
    /\ panic_origin' = Top.fn
    /\ pc' = "unwind"
    /\ UNCHANGED <<frames, sinks, is_panicking, result, prints, cfg, Settings,
                   Formatting, Threading, reported>>

\* func3 returns foo - bar.len(): its frame is left, its guard dropped.
Func3Return ==
    /\ pc = "call"
    /\ Top.fn = 3
    /\ checked_sub(Top.foo, StrLen(Top.bar)) # None
    /\ result' = [tag |-> "Returning",
                  value |-> Unwrap(checked_sub(Top.foo, StrLen(Top.bar)))]
    /\ sinks' = DropTop
    /\ frames' = Pop(frames)
    /\ pc' = "return"
    /\ UNCHANGED <<panicking, is_panicking, panic_origin, prints, cfg, Settings,
                   Formatting, Threading, reported>>

\* func2 / func1 return their callee's value; func1 returns into catch_unwind.
Return ==
    /\ pc = "return"
    /\ Top.fn \in {1, 2}
    /\ sinks' = DropTop
    /\ frames' = Pop(frames)
    /\ IF Top.fn = 1
       THEN pc' = "after" /\ result' = [result EXCEPT !.tag = "Ok"]
       ELSE UNCHANGED <<pc, result>>
    /\ UNCHANGED <<panicking, is_panicking, panic_origin, prints, cfg, Settings,
                   Formatting, Threading, reported>>

\* Unwind in which a failed write of the dropped guard is a panic inside the
\* destructor: the process aborts.
Unwind_aborts_on_failure ==
    /\ pc = "unwind"
    /\ Top.fn \in {1, 2, 3}
    /\ sinks' = DropTop
    /\ IF DropTop[Top.ctx.writer].failed
       THEN pc' = "abort" /\ UNCHANGED <<frames, panicking, result>>
       ELSE /\ frames' = Pop(frames)
            /\ IF Top.fn = 1
               THEN /\ pc' = "after"
                    /\ panicking' = FALSE
                    /\ result' = [tag |-> "Err", value |-> 0]
               ELSE UNCHANGED <<pc, panicking, result>>
    /\ UNCHANGED <<is_panicking, panic_origin, prints, cfg, Settings,
                   Formatting, Threading, reported>>

\* The panic unwinds one frame: its guard is dropped.  Below func1,
\* catch_unwind stops the panic and returns Err.
Unwind ==
    /\ pc = "unwind"
    /\ Top.fn \in {1, 2, 3}
    /\ sinks' = DropTop
    /\ frames' = Pop(frames)
    /\ IF Top.fn = 1
       THEN /\ pc' = "after"
            /\ panicking' = FALSE
            /\ result' = [tag |-> "Err", value |-> 0]
       ELSE UNCHANGED <<pc, panicking, result>>
    /\ UNCHANGED <<is_panicking, panic_origin, prints, cfg, Settings,
                   Formatting, Threading, reported>>

\* The test body ends: its guard, if any, is dropped.
MainExit ==
    /\ pc = "after"
    /\ sinks' = DropTop
    /\ frames' = <<Frame(0, cfg.foo, cfg.bar, NoGuard, NotGiven)>>
    /\ pc' = "done"
    /\ reported' = IF Top.ctx = NoGuard THEN reported
                   ELSE Append(reported,
                               PanicDetector_is_panicking(cfg.panic_detector, panicking,
                                                          is_panicking))
    /\ UNCHANGED <<panicking, is_panicking, result, panic_origin, prints, cfg, Settings,
                   Formatting, Threading>>

\* The test stores into the AtomicBool behind its DummyPanicDetector.
StoreIsPanicking(b) ==
    /\ cfg.panic_detector = "DummyPanicDetector"
    /\ pc # "done"
    /\ is_panicking # b
    /\ is_panicking' = b
    /\ UNCHANGED <<frames, sinks, panicking, pc, result, panic_origin, prints, cfg, Settings,
                   Formatting, Threading, reported>>

\* set_colors_enabled that can only enable.
set_colors_enabled_sticky(enabled) ==
    /\ pc = "main"
    /\ SHOULD_COLORIZE' = (SHOULD_COLORIZE \/ enabled)
    /\ last_enabled' = Some(enabled)
    /\ UNCHANGED <<frames, sinks, panicking, is_panicking, pc, result, panic_origin,
                   prints, cfg, DEFAULT_COLOR_SCHEME, last_scheme, Formatting,
                   Threading, reported>>

\* set_colors.rs: set_colors_enabled
set_colors_enabled(enabled) ==
    /\ pc = "main"
    /\ SHOULD_COLORIZE' = enabled
    /\ last_enabled' = Some(enabled)
    /\ UNCHANGED <<frames, sinks, panicking, is_panicking, pc, result, panic_origin,
                   prints, cfg, DEFAULT_COLOR_SCHEME, last_scheme, Formatting,
                   Threading, reported>>

\* set_default_color_scheme that keeps a scheme already installed.
set_default_color_scheme_once(color_scheme) ==
    /\ pc = "main"
    /\ DEFAULT_COLOR_SCHEME' = IF DEFAULT_COLOR_SCHEME = None THEN Some(color_scheme)
                               ELSE DEFAULT_COLOR_SCHEME
    /\ last_scheme' = Some(color_scheme)
    /\ UNCHANGED <<frames, sinks, panicking, is_panicking, pc, result, panic_origin,
                   prints, cfg, SHOULD_COLORIZE, last_enabled, Formatting,
                   Threading, reported>>

\* set_colors.rs: set_default_color_scheme
set_default_color_scheme(color_scheme) ==
    /\ pc = "main"
    /\ DEFAULT_COLOR_SCHEME' = Some(color_scheme)
    /\ last_scheme' = Some(color_scheme)
    /\ UNCHANGED <<frames, sinks, panicking, is_panicking, pc, result, panic_origin,
                   prints, cfg, SHOULD_COLORIZE, last_enabled, Formatting,
                   Threading, reported>>

Schemes == {TEST_ANSI_COLOR_SCHEME, DEFAULT_DEFAULT_COLOR_SCHEME}

\* ---------------------------------------- the settings, called from threads

\* Number of threads that call the settings' functions.
NumThreads == 2

\* Largest number of calls the threads make, all together.
MaxCalls == 4

Threads == 1..NumThreads

\* A thread that is in no call and has made none.
Idle == [pc |-> "idle", fn |-> "", arg |-> <<>>, ret |-> <<>>, instants |-> <<>>]

\* The two settings as they are at this instant: the flag, and the palette
\* get_default_color_scheme would return.
Snapshot(enabled, color_scheme) ==
    [enabled |-> enabled,
     color_scheme |-> IF color_scheme = None THEN DEFAULT_DEFAULT_COLOR_SCHEME
                      ELSE Unwrap(color_scheme)]

\* A thread whose get_default_color_scheme_if_enabled call is running lives
\* through the instant snap.
Observe(thread, snap) ==
    IF thread.pc # "idle" /\ thread.fn = "get_default_color_scheme_if_enabled"
    THEN [thread EXCEPT !.instants = Append(@, snap)]
    ELSE thread

\* The thread after its call returned ret.
Returned(thread, ret) == [thread EXCEPT !.pc = "idle", !.ret = ret]

\* Thread t enters fn(arg); nothing is loaded or stored yet.
Call(t, fn, arg) ==
    /\ threads[t].pc = "idle"
    /\ calls.made < MaxCalls
    /\ threads' = [threads EXCEPT ![t] =
           [pc |-> "called", fn |-> fn, arg |-> arg, ret |-> <<>>,
            instants |-> IF fn = "get_default_color_scheme_if_enabled"
                         THEN <<Snapshot(SHOULD_COLORIZE, DEFAULT_COLOR_SCHEME)>>
                         ELSE <<>>]]
    /\ calls' = [enabled |-> calls.enabled
                               \cup (IF fn = "set_colors_enabled" THEN {arg[1]} ELSE {}),
                 color_scheme |-> calls.color_scheme
                               \cup (IF fn = "set_default_color_scheme" THEN {arg[1]} ELSE {}),
                 made |-> calls.made + 1]
    /\ UNCHANGED <<frames, sinks, panicking, is_panicking, pc, result, panic_origin, prints,
                   cfg, Settings, Formatting, reported>>

\* set_colors.rs: set_colors_enabled in thread t:
\* SHOULD_COLORIZE.store(enabled, Relaxed)
store_SHOULD_COLORIZE(t) ==
    /\ threads[t].pc = "called"
    /\ threads[t].fn = "set_colors_enabled"
    /\ SHOULD_COLORIZE' = threads[t].arg[1]
    /\ last_enabled' = Some(threads[t].arg[1])
    /\ threads' = [u \in Threads |->
           IF u = t THEN Returned(threads[t], <<>>)
           ELSE Observe(threads[u], Snapshot(threads[t].arg[1], DEFAULT_COLOR_SCHEME))]
    /\ UNCHANGED <<frames, sinks, panicking, is_panicking, pc, result, panic_origin, prints,
                   cfg, DEFAULT_COLOR_SCHEME, last_scheme, Formatting, calls,
                   reported>>

\* are_colors_enabled in which get_default_color_scheme_if_enabled goes on to
\* the palette whatever the flag is.
load_SHOULD_COLORIZE_ignored(t) ==
    /\ threads[t].pc = "called"
    /\ threads[t].fn \in {"are_colors_enabled", "get_default_color_scheme_if_enabled"}
    /\ threads' = [threads EXCEPT ![t] =
           IF threads[t].fn = "are_colors_enabled"
           THEN Returned(threads[t], <<SHOULD_COLORIZE>>)
           ELSE [threads[t] EXCEPT !.pc = "enabled"]]
    /\ UNCHANGED <<frames, sinks, panicking, is_panicking, pc, result, panic_origin, prints,
                   cfg, Settings, Formatting, calls, reported>>

\* set_colors.rs: are_colors_enabled in thread t, called by the test or by
\* get_default_color_scheme_if_enabled: SHOULD_COLORIZE.load(Relaxed).  In the
\* latter `false.then(..)` returns None, `true.then(f)` goes on to call f.
load_SHOULD_COLORIZE(t) ==
    /\ threads[t].pc = "called"
    /\ threads[t].fn \in {"are_colors_enabled", "get_default_color_scheme_if_enabled"}
    /\ threads' = [threads EXCEPT ![t] =
           IF threads[t].fn = "are_colors_enabled"
           THEN Returned(threads[t], <<SHOULD_COLORIZE>>)
           ELSE IF SHOULD_COLORIZE THEN [threads[t] EXCEPT !.pc = "enabled"]
                ELSE Returned(threads[t], <<None>>)]
    /\ UNCHANGED <<frames, sinks, panicking, is_panicking, pc, result, panic_origin, prints,
                   cfg, Settings, Formatting, calls, reported>>

\* set_default_color_scheme in thread t that keeps a scheme already installed.
store_DEFAULT_COLOR_SCHEME_once(t) ==
    /\ threads[t].pc = "called"
    /\ threads[t].fn = "set_default_color_scheme"
    /\ DEFAULT_COLOR_SCHEME' = IF DEFAULT_COLOR_SCHEME = None THEN Some(threads[t].arg[1])
                               ELSE DEFAULT_COLOR_SCHEME
    /\ last_scheme' = Some(threads[t].arg[1])
    /\ threads' = [u \in Threads |->
           IF u = t THEN Returned(threads[t], <<>>)
           ELSE Observe(threads[u], Snapshot(SHOULD_COLORIZE, DEFAULT_COLOR_SCHEME'))]
    /\ UNCHANGED <<frames, sinks, panicking, is_panicking, pc, result, panic_origin, prints,
                   cfg, SHOULD_COLORIZE, last_enabled, Formatting, calls,
                   reported>>

\* set_colors.rs: set_default_color_scheme in thread t:
\* DEFAULT_COLOR_SCHEME.store(Some(color_scheme), Release)
store_DEFAULT_COLOR_SCHEME(t) ==
    /\ threads[t].pc = "called"
    /\ threads[t].fn = "set_default_color_scheme"
    /\ DEFAULT_COLOR_SCHEME' = Some(threads[t].arg[1])
    /\ last_scheme' = Some(threads[t].arg[1])
    /\ threads' = [u \in Threads |->
           IF u = t THEN Returned(threads[t], <<>>)
           ELSE Observe(threads[u], Snapshot(SHOULD_COLORIZE, Some(threads[t].arg[1])))]
    /\ UNCHANGED <<frames, sinks, panicking, is_panicking, pc, result, panic_origin, prints,
                   cfg, SHOULD_COLORIZE, last_enabled, Formatting, calls,
                   reported>>

\* set_colors.rs: get_default_ansi_color_scheme_impl in thread t, called by
\* get_default_color_scheme or as the closure of `.then(..)`:
\* DEFAULT_COLOR_SCHEME.load(Acquire).unwrap_or(&DEFAULT_DEFAULT_COLOR_SCHEME)
load_DEFAULT_COLOR_SCHEME(t) ==
    /\ \/ threads[t].pc = "called" /\ threads[t].fn = "get_default_color_scheme"
       \/ threads[t].pc = "enabled"
    /\ threads' = [threads EXCEPT ![t] =
           IF threads[t].fn = "get_default_color_scheme"
           THEN Returned(threads[t], <<get_default_color_scheme>>)
           ELSE Returned(threads[t], <<Some(get_default_color_scheme)>>)]
    /\ UNCHANGED <<frames, sinks, panicking, is_panicking, pc, result, panic_origin, prints,
                   cfg, Settings, Formatting, calls, reported>>

\* The state the program starts in, for the inputs c.
InitWith(c) ==
    /\ cfg = c
    /\ frames = <<Frame(0, c.foo, c.bar, NoGuard, NotGiven)>>
    /\ sinks = [i \in 0..3 |-> NewWriter(c, i)]
    /\ panicking = FALSE
    /\ is_panicking = FALSE
    /\ pc = "main"
    /\ result = [tag |-> "None", value |-> 0]
    /\ panic_origin = 0
    /\ prints = 0
    /\ SHOULD_COLORIZE = FALSE
    /\ DEFAULT_COLOR_SCHEME = None
    /\ last_enabled = None
    /\ last_scheme = None
    /\ fmt_value = None
    /\ buffer = 0
    /\ fmt_result = None
    /\ colored_writer = None
    /\ cw_offset = 0
    /\ fmt_writer = None
    /\ threads = [t \in Threads |-> Idle]
    /\ calls = [enabled |-> {}, color_scheme |-> {}, made |-> 0]
    /\ reported = <<>>

\* The tests' set-ups: writers that do not fail, both detectors.
Configs ==
    {[foo |-> i.foo, bar |-> i.bar, writer |-> w, buf_len |-> [k \in 0..3 |-> 256],
      flush_ok |-> TRUE,
      panic_detector |-> d, color_scheme |-> s] :
        i \in Inputs,
        w \in {"FixedBufWriter", "ChannelWriter", "IoChannelWriter"},
        d \in {"StdPanicDetector", "DummyPanicDetector"},
        s \in {None, Some(TEST_ANSI_COLOR_SCHEME)}}

Init == \E c \in Configs : InitWith(c)

Next ==
    \/ \E a \in ColorArgs : MainCreateGuard(a)
    \/ MainDropGuard
    \/ PrintGuard
    \/ CallFunc1
    \/ CallNext
    \/ Panic
    \/ Func3Return
    \/ Return
    \/ Unwind
    \/ MainExit
    \/ \E b \in BOOLEAN : StoreIsPanicking(b)

Spec == Init /\ [][Next]_vars

\* The set-up of test_set_ansi_colors_enabled: a guard over (123, "BAR") in
\* the test body, the process-wide settings changed around it.
ColorConfigs ==
    {[foo |-> 123, bar |-> <<"B", "A", "R">>, writer |-> "FixedBufWriter",
      buf_len |-> [k \in 0..3 |-> 128], flush_ok |-> TRUE,
      panic_detector |-> d, color_scheme |-> None] :
        d \in {"StdPanicDetector", "DummyPanicDetector"}}

InitColors == \E c \in ColorConfigs : InitWith(c)

NextColors ==
    \/ \E a \in ColorArgs : MainCreateGuard(a)
    \/ MainDropGuard
    \/ PrintGuard
    \/ \E b \in BOOLEAN : StoreIsPanicking(b)
    \/ \E b \in BOOLEAN : set_colors_enabled(b)
    \/ \E p \in Schemes : set_default_color_scheme(p)

SpecColors == InitColors /\ [][NextColors]_vars

\* The settings start as the process starts; the threads are in no call.
InitThreads == InitWith(CHOOSE c \in ColorConfigs : c.panic_detector = "StdPanicDetector")

NextThreads ==
    \E t \in Threads :
        \/ \E b \in BOOLEAN : Call(t, "set_colors_enabled", <<b>>)
        \/ Call(t, "are_colors_enabled", <<>>)
        \/ \E p \in Schemes : Call(t, "set_default_color_scheme", <<p>>)
        \/ Call(t, "get_default_color_scheme", <<>>)
        \/ Call(t, "get_default_color_scheme_if_enabled", <<>>)
        \/ store_SHOULD_COLORIZE(t)
        \/ load_SHOULD_COLORIZE(t)
        \/ store_DEFAULT_COLOR_SCHEME(t)
        \/ load_DEFAULT_COLOR_SCHEME(t)

SpecThreads == InitThreads /\ [][NextThreads]_vars

\* Writers that fail: the writer of func k's guard has buf_len[k] bytes and
\* its flush may fail; func2 panics on the empty bar.
FailConfigs ==
    {[foo |-> 1000, bar |-> <<"a">>, writer |-> w[1],
      buf_len |-> [k \in 0..3 |-> IF k = limited THEN n ELSE 256], flush_ok |-> w[2],
      panic_detector |-> "StdPanicDetector", color_scheme |-> s] :
        limited \in 1..2,
        n \in 0..MaxCap,
        w \in {<<"FixedBufWriter", TRUE>>, <<"IoLimitedWriter", TRUE>>,
               <<"IoLimitedWriter", FALSE>>},
        s \in {None, Some(TEST_ANSI_COLOR_SCHEME)}}

InitFail == \E c \in FailConfigs : InitWith(c)

NextFail ==
    \/ PrintGuard
    \/ CallFunc1
    \/ CallNext
    \/ Panic
    \/ Unwind

SpecFail == InitFail /\ [][NextFail]_vars

\* ------------------------------------------------ the renderers on their own

\* Largest number of arguments in an argument list handed to debug_fmt.
MaxArgs == 2

\* Largest number of tokens in a text handed to the colorizer.
MaxTokens == 3

\* Largest number of characters in a quoted text handed to the colorizer.
MaxQuoted == 4

\* A palette whose twelve entries are all the empty string.
EMPTY_COLOR_SCHEME ==
    [default |-> <<>>, location |-> <<>>, fn_keyword |-> <<>>, func_name |-> <<>>,
     func_braces |-> <<>>, value_braces |-> <<>>, ident |-> <<>>, item |-> <<>>,
     boolean |-> <<>>, number |-> <<>>, quoted |-> <<>>, escaped |-> <<>>]

\* test_util.rs: TransparentDebug(text): Debug writes the text in one write_str.
TransparentDebug(text) == DebugValue(<<text>>)

\* An argument on its own, as handed to debug_fmt.
ArgData(arg) == [type |-> "UnwindContextArg", name |-> arg.name, value |-> arg.value]

\* A value handed to debug_fmt as it is.
Uncolored(data) == [data |-> data, color_scheme |-> None]

\* colored.rs: AnsiColored::new
AnsiColored(data, color_scheme) == [data |-> data, color_scheme |-> Some(color_scheme)]

\* <T as Debug>::fmt of the value handed to debug_fmt
Debug_fmt(v, f) ==
    IF v.color_scheme = None
    THEN IF v.data.type = "UnwindContextArg"
         THEN UnwindContextArg_fmt(v.data, f)
         ELSE Data_fmt(v.data, f)
    ELSE IF v.data.type = "UnwindContextArg"
         THEN UnwindContextArg_fmt_colored(v.data, f, Unwrap(v.color_scheme))
         ELSE AnsiColored_fmt(v.data, f, Unwrap(v.color_scheme))

\* test_util.rs: buf_fmt: `core::fmt::write(&mut writer, args)?; Ok(writer.into_str())`
buf_fmt(f) ==
    IF f.err THEN [tag |-> "Err", str |-> <<>>] ELSE [tag |-> "Ok", str |-> f.w.buf]

\* test_util.rs: debug_fmt over a buffer of `len` bytes
debug_fmt(len, v) == buf_fmt(Debug_fmt(v, Formatter(FixedBufWriter(len))))

\* The length of the full output of v: `debug_fmt(&mut buffer, &v).unwrap().len()`
FullLen(v) == StrLen(Debug_fmt(v, Formatter(ChannelWriter)).w.buf)

\* A test calls debug_fmt(&mut buffer[0..len], &value), len being `buffer`.
DebugFmt ==
    /\ fmt_value # None
    /\ fmt_result = None
    /\ fmt_result' = Some(debug_fmt(buffer, Unwrap(fmt_value)))
    /\ fmt_writer' = Some(Debug_fmt(Unwrap(fmt_value), Formatter(FixedBufWriter(buffer))).w)
    /\ UNCHANGED <<frames, sinks, panicking, is_panicking, pc, result, panic_origin,
                   prints, cfg, Settings, fmt_value, buffer, colored_writer, cw_offset,
                   Threading, reported>>

\* The arguments of the renderers' tests.
TestArgs ==
    {UnwindContextArg(Some(S_foo), UsizeValue(1)),
     UnwindContextArg(Some(S_bar), StrValue(<<"a">>)),
     UnwindContextArg(None, UsizeValue(3)),
     UnwindContextArg(None, NonExhaustiveMarker),
     UnwindContextArg(Some(S_foo),
                      TransparentDebug(<<"[", "1", ",", " ", "2", ",", " ", "3", "]">>))}

\* The argument lists of at most n arguments.
ArgLists(n) == UNION {[1..k -> TestArgs] : k \in 0..n}

\* The values of the renderers' tests: arguments, argument lists and function
\* records.
TestData ==
    {ArgData(a) : a \in TestArgs}
        \cup {UnwindContextArgs(l) : l \in ArgLists(MaxArgs)}
        \cup {UnwindContextFunc(S_foo, l) : l \in ArgLists(MaxArgs)}

\* The values handed to debug_fmt: plain, or colored with one of the palettes.
TestValues ==
    {Uncolored(d) : d \in TestData}
        \cup {AnsiColored(d, p) : d \in TestData,
                                  p \in {TEST_ANSI_COLOR_SCHEME, EMPTY_COLOR_SCHEME}}

\* The state of a test that is about to call debug_fmt on v with a buffer of
\* `len` bytes.
InitValue(v, len) ==
    /\ cfg = [foo |-> 0, bar |-> <<>>, writer |-> "FixedBufWriter",
              buf_len |-> [k \in 0..3 |-> 0], flush_ok |-> TRUE,
              panic_detector |-> "StdPanicDetector", color_scheme |-> None]
    /\ frames = <<Frame(0, 0, <<>>, NoGuard, NotGiven)>>
    /\ sinks = [i \in 0..3 |-> FixedBufWriter(0)]
    /\ panicking = FALSE
    /\ is_panicking = FALSE
    /\ pc = "main"
    /\ result = [tag |-> "None", value |-> 0]
    /\ panic_origin = 0
    /\ prints = 0
    /\ SHOULD_COLORIZE = FALSE
    /\ DEFAULT_COLOR_SCHEME = None
    /\ last_enabled = None
    /\ last_scheme = None
    /\ fmt_value = Some(v)
    /\ buffer = len
    /\ fmt_result = None
    /\ colored_writer = None
    /\ cw_offset = 0
    /\ fmt_writer = None
    /\ threads = [t \in Threads |-> Idle]
    /\ calls = [enabled |-> {}, color_scheme |-> {}, made |-> 0]
    /\ reported = <<>>

\* The tests render each value into every buffer length up to its full
\* length and beyond.
InitFmt == \E v \in TestValues : \E len \in 0..(FullLen(v) + 1) : InitValue(v, len)

NextFmt == DebugFmt

SpecFmt == InitFmt /\ [][NextFmt]_vars

\* Length of the buffer of test_complex_colored_fmt.
ComplexBufferLen == 64

\* arg.rs tests: fmt_str_as_arg's value: the text as an unnamed argument,
\* colored with the test palette.
fmt_str_as_arg(text) ==
    AnsiColored(ArgData(UnwindContextArg(None, TransparentDebug(text))),
                TEST_ANSI_COLOR_SCHEME)

\* Pieces of the texts handed to the colorizer: the keywords and what may
\* stand next to them.
LexTokens ==
    {<<"t", "r", "u", "e">>, <<"f", "a", "l", "s", "e">>, <<"1">>, <<"_">>,
     <<"U+00E9">>, <<"-">>, <<" ">>, <<"(">>, <<")">>}

\* Characters of the quoted texts handed to the colorizer.
QuoteChars == {"\"", "'", "\\", "a"}

\* The texts of the colorizer's tests.
LexTexts ==
    {Flatten(ts) : ts \in UNION {[1..k -> LexTokens] : k \in 0..MaxTokens}}
        \cup UNION {[1..k -> QuoteChars] : k \in 0..MaxQuoted}

InitLex == \E text \in LexTexts : InitValue(fmt_str_as_arg(text), ComplexBufferLen)

SpecLex == InitLex /\ [][NextFmt]_vars

\* Largest number of write_str calls a value's Debug output is handed to the
\* colorizer in.
MaxChunks == 2

\* The ways of cutting the text into n chunks, empty ones included.
Splits(text, n) ==
    {[i \in 1..n |-> SubSeq(text,
                            (IF i = 1 THEN 0 ELSE cuts[i - 1]) + 1,
                            IF i = n THEN Len(text) ELSE cuts[i])] :
        cuts \in {c \in [1..(n - 1) -> 0..Len(text)] :
                     \A i \in 1..(n - 2) : c[i] <= c[i + 1]}}

\* A value whose Debug impl writes its text in several write_str calls, as an
\* unnamed argument colored with the test palette.
fmt_chunks_as_arg(chunks) ==
    AnsiColored(ArgData(UnwindContextArg(None, DebugValue(chunks))), TEST_ANSI_COLOR_SCHEME)

\* Every text of the colorizer's tests, handed over in every way of cutting it.
InitChunks ==
    \E text \in LexTexts : \E chunks \in Splits(text, MaxChunks) :
        InitValue(fmt_chunks_as_arg(chunks), ComplexBufferLen)

SpecChunks == InitChunks /\ [][NextFmt]_vars

\* Largest number of items in a build_unwind_context_data! call.
MaxItems == 3

\* Length of the buffer of test_unwind_context_data.
DataBufferLen == 128

\* An item of a macro call: "...", a "literal" or an "expr"; `tokens` is the
\* item's source text, `value` what it evaluates to (None for "...").
Item(kind, tokens, value) == [kind |-> kind, tokens |-> tokens, value |-> value]

\* build_unwind_context_data_item that takes a literal for an expression.
build_unwind_context_data_item_literal_as_expr(item) ==
    IF item.kind = "..." THEN UnwindContextArg(None, NonExhaustiveMarker)
    ELSE UnwindContextArg(Some(item.tokens), Unwrap(item.value))

\* context_data.rs: build_unwind_context_data_impl!( @args .. ), the head of
\* the three arms: `...`, $value:literal, $arg:expr (named stringify!($arg)).
build_unwind_context_data_item(item) ==
    CASE item.kind = "..."     -> UnwindContextArg(None, NonExhaustiveMarker)
      [] item.kind = "literal" -> UnwindContextArg(None, Unwrap(item.value))
      [] OTHER                 -> UnwindContextArg(Some(item.tokens), Unwrap(item.value))

RECURSIVE build_unwind_context_data_args(_)
\* context_data.rs: build_unwind_context_data_impl!( @args .. )
build_unwind_context_data_args(items) ==
    IF items = <<>> THEN <<>>
    ELSE <<build_unwind_context_data_item(Head(items))>>
             \o build_unwind_context_data_args(Tail(items))

\* context_data.rs: build_unwind_context_data!: `fn name(..)` (the name is
\* stringify!($name)), `fn "name"(..)`, and the list of scope variables.
build_unwind_context_data(call) ==
    IF call.form \in {"fn ident", "fn literal"}
    THEN UnwindContextFunc(call.name, build_unwind_context_data_args(call.items))
    ELSE UnwindContextArgs(build_unwind_context_data_args(call.items))

\* The items of the calls in test_unwind_context_data: foo = 123, bar = "value".
DataItems ==
    {Item("expr", S_foo, Some(UsizeValue(123))),
     Item("literal", <<"2", "3", "4">>, Some(UsizeValue(234))),
     Item("expr", S_bar, Some(StrValue(<<"v", "a", "l", "u", "e">>))),
     Item("...", <<".", ".", ".">>, None)}

\* The macro calls: the three forms over every list of at most MaxItems items.
DataCalls ==
    {[form |-> n[1], name |-> n[2], items |-> items] :
        n \in {<<"args", <<>>>>,
               <<"fn ident", <<"f", "u", "n", "c">>>>,
               <<"fn literal", <<"m", "o", "d", ":", ":", "f", "u", "n", "c">>>>},
        items \in UNION {[1..k -> DataItems] : k \in 0..MaxItems}}

\* test_unwind_context_data: `let context = build_unwind_context_data!(..)`.
BuildContextData ==
    /\ pc = "main"
    /\ fmt_value = None
    /\ fmt_value' = Some(Uncolored(build_unwind_context_data(cfg.context)))
    /\ buffer' = DataBufferLen
    /\ UNCHANGED <<frames, sinks, panicking, is_panicking, pc, result, panic_origin,
                   prints, cfg, Settings, fmt_result, colored_writer, cw_offset, fmt_writer,
                   Threading, reported>>

InitData ==
    \E call \in DataCalls :
        InitWith([foo |-> 123, bar |-> <<"v", "a", "l", "u", "e">>,
                  writer |-> "FixedBufWriter", buf_len |-> [k \in 0..3 |-> DataBufferLen],
                  flush_ok |-> TRUE, panic_detector |-> "StdPanicDetector",
                  color_scheme |-> None, context |-> call])

NextData ==
    \/ BuildContextData
    \/ DebugFmt

SpecData == InitData /\ [][NextData]_vars

\* ------------------------------------------------------ the debug_* macros

S_func_with_debug_unwind_context ==
    <<"f", "u", "n", "c", "_", "w", "i", "t", "h", "_", "d", "e", "b", "u", "g", "_", "u", "n", "w", "i", "n", "d", "_", "c", "o", "n", "t", "e", "x", "t">>

\* The call site of the macro in func_with_debug_unwind_context, in the tests
\* of context_with_fmt.rs and of context_with_io.rs.
DebugFuncLocation(type) ==
    IF type = "UnwindContextWithIo"
    THEN Location(<<"s", "r", "c", "/", "c", "o", "n", "t", "e", "x", "t", "_", "w", "i", "t", "h", "_", "i", "o", ".", "r", "s">>, 390, 20)
    ELSE Location(S_file_fmt, 381, 20)

\* debug_unwind_context_with_fmt! / _io! that expand to a guard in every build.
debug_unwind_context_with_in_every_build(debug_assertions, type, data, writer, panic_detector, color_arg, location) ==
    unwind_context_with(type, data, writer, panic_detector, color_arg, location)

\* context_with_fmt.rs / context_with_io.rs: debug_unwind_context_with_fmt!,
\* debug_unwind_context_with_io!: the non-debug macro under
\* cfg(debug_assertions), the unit value `()` otherwise.
debug_unwind_context_with(debug_assertions, type, data, writer, panic_detector, color_arg, location) ==
    IF debug_assertions
    THEN unwind_context_with(type, data, writer, panic_detector, color_arg, location)
    ELSE NoGuard

\* catch_unwind(|| func_with_debug_unwind_context(foo, bar, ..)): the function
\* is entered and its first statement binds what the macro expands to.
CallFuncWithDebugUnwindContext ==
    /\ pc = "main"
    /\ frames' = Append(frames,
                        Frame(4, cfg.foo, cfg.bar,
                              debug_unwind_context_with(
                                  cfg.debug_assertions, GuardType(cfg),
                                  build_fn_foo_bar(S_func_with_debug_unwind_context, cfg.foo, cfg.bar),
                                  1, cfg.panic_detector, Given(cfg.color_scheme),
                                  DebugFuncLocation(GuardType(cfg))),
                              Given(cfg.color_scheme)))
    /\ pc' = "call"
    /\ UNCHANGED <<sinks, panicking, is_panicking, result, panic_origin, prints, cfg, Settings,
                   Formatting, Threading, reported>>

\* foo.checked_sub(bar.len()).unwrap() panics: the thread starts unwinding.
DebugFuncPanic ==
    /\ pc = "call"
    /\ Top.fn = 4
    /\ checked_sub(Top.foo, StrLen(Top.bar)) = None
    /\ panicking' = TRUE
    /\ panic_origin' = 4
    /\ pc' = "unwind"
    /\ UNCHANGED <<frames, sinks, is_panicking, result, prints, cfg, Settings,
                   Formatting, Threading, reported>>

\* The function returns foo - bar.len() into catch_unwind: `_ctx` is dropped.
DebugFuncReturn ==
    /\ pc = "call"
    /\ Top.fn = 4
    /\ checked_sub(Top.foo, StrLen(Top.bar)) # None
    /\ result' = [tag |-> "Ok", value |-> Unwrap(checked_sub(Top.foo, StrLen(Top.bar)))]
    /\ sinks' = DropTop
    /\ frames' = Pop(frames)
    /\ pc' = "after"
    /\ UNCHANGED <<panicking, is_panicking, panic_origin, prints, cfg, Settings,
                   Formatting, Threading, reported>>

\* The panic unwinds the function: `_ctx` is dropped, catch_unwind returns Err.
DebugFuncUnwind ==
    /\ pc = "unwind"
    /\ Top.fn = 4
    /\ sinks' = DropTop
    /\ frames' = Pop(frames)
    /\ pc' = "after"
    /\ panicking' = FALSE
    /\ result' = [tag |-> "Err", value |-> 0]
    /\ UNCHANGED <<is_panicking, panic_origin, prints, cfg, Settings,
                   Formatting, Threading, reported>>

\* The tests of the debug macros, (4, "abc") and (2, "abc"), and the least foo
\* that does not panic, in a build with and in a build without debug
\* assertions.
DebugConfigs ==
    {[foo |-> foo, bar |-> <<"a", "b", "c">>, writer |-> w[1],
      buf_len |-> [k \in 0..3 |-> 256], flush_ok |-> TRUE,
      panic_detector |-> w[2], color_scheme |-> s, debug_assertions |-> d] :
        foo \in {4, 3, 2},
        w \in {<<"ChannelWriter", "StdPanicDetector">>,
               <<"ChannelWriter", "DummyPanicDetector">>,
               <<"IoChannelWriter", "StdPanicDetector">>},
        s \in {None, Some(TEST_ANSI_COLOR_SCHEME)},
        d \in BOOLEAN}

InitDebug == \E c \in DebugConfigs : InitWith(c)

NextDebug ==
    \/ CallFuncWithDebugUnwindContext
    \/ DebugFuncPanic
    \/ DebugFuncReturn
    \/ DebugFuncUnwind
    \/ \E b \in BOOLEAN : StoreIsPanicking(b)

SpecDebug == InitDebug /\ [][NextDebug]_vars

\* ------------------------------------- fmt_colored, one character at a time

\* Largest number of characters of a text written character by character.
MaxChars == 3

\* The argument whose fmt_colored is running, its text, and its ColoredWriter.
ColoredArg == Unwrap(fmt_value).data

ColoredText == Flatten(DebugChunks(ColoredArg.value))

SelfWriter == Unwrap(colored_writer)

\* arg.rs: fmt_colored of UnwindContextArg is entered by debug_fmt: the name
\* is written and the ColoredWriter built, in the mode Default.
FmtColored ==
    /\ fmt_value # None
    /\ colored_writer = None
    /\ fmt_result = None
    /\ colored_writer' =
           Some(ColoredWriter(write_name(Formatter(FixedBufWriter(buffer)), ColoredArg.name),
                              Unwrap(Unwrap(fmt_value).color_scheme)))
    /\ cw_offset' = 1
    /\ UNCHANGED <<frames, sinks, panicking, is_panicking, pc, result, panic_origin,
                   prints, cfg, Settings, fmt_value, buffer, fmt_result, fmt_writer,
                   Threading, reported>>

\* arg.rs: ColoredWriter::write_str, one iteration of the loop over
\* s.char_indices().
WriteChar ==
    /\ colored_writer # None
    /\ fmt_result = None
    /\ cw_offset <= Len(ColoredText)
    /\ ~SelfWriter.writer.err
    /\ colored_writer' = Some(ColoredWriter_write_char(SelfWriter, ColoredText, cw_offset))
    /\ cw_offset' = cw_offset + 1
    /\ UNCHANGED <<frames, sinks, panicking, is_panicking, pc, result, panic_origin,
                   prints, cfg, Settings, fmt_value, buffer, fmt_result, fmt_writer,
                   Threading, reported>>

\* arg.rs: write_str has returned: Err leaves fmt_colored by `?`, Ok is
\* followed by writer.reset(); debug_fmt returns the buffer's text.
Reset ==
    /\ colored_writer # None
    /\ fmt_result = None
    /\ cw_offset > Len(ColoredText) \/ SelfWriter.writer.err
    /\ colored_writer' = Some(ColoredWriter_reset(SelfWriter))
    /\ fmt_result' = Some(buf_fmt(ColoredWriter_reset(SelfWriter).writer))
    /\ fmt_writer' = Some(ColoredWriter_reset(SelfWriter).writer.w)
    /\ UNCHANGED <<frames, sinks, panicking, is_panicking, pc, result, panic_origin,
                   prints, cfg, Settings, fmt_value, buffer, cw_offset,
                   Threading, reported>>

\* One character of each class the match arms of write_str tell apart.
CharClasses == {"1", "+", ".", "(", "]", "_", "\"", "'", "\\", "A", "a", "U+00E9", "#", " "}

\* All texts of up to MaxChars characters, the texts of up to MaxQuoted
\* quote characters, true / false alone, before and after each character,
\* and the tests' foo123, foo_bar, r#raw, b'1'.
CharTexts ==
    UNION {[1..k -> CharClasses] : k \in 0..MaxChars}
        \cup UNION {[1..k -> QuoteChars] : k \in 0..MaxQuoted}
        \cup {<<"f", "o", "o", "1", "2", "3">>,
              <<"f", "o", "o", "_", "b", "a", "r">>,
              <<"r", "#", "r", "a", "w">>,
              <<"b", "'", "1", "'">>}
        \cup {pre \o kw \o post :
                 pre \in {<<>>} \cup {<<ch>> : ch \in CharClasses},
                 kw \in {<<"t", "r", "u", "e">>, <<"f", "a", "l", "s", "e">>},
                 post \in {<<>>} \cup {<<ch>> : ch \in CharClasses}}

InitChars == \E text \in CharTexts : InitValue(fmt_str_as_arg(text), ComplexBufferLen)

NextChars ==
    \/ FmtColored
    \/ WriteChar
    \/ Reset

SpecChars == InitChars /\ [][NextChars]_vars

\* ------------------------------------------------------------ properties

\* "<file>:<line>:<column>"
LocationText(location) ==
    location.file \o <<":">> \o ToDec(location.line) \o <<":">> \o ToDec(location.column)

\* The rendering of a payload on a writer that takes everything.
PayloadText(data, color_scheme) ==
    IF color_scheme = None
    THEN Data_fmt(data, Formatter(ChannelWriter)).w.buf
    ELSE AnsiColored_fmt(data, Formatter(ChannelWriter), Unwrap(color_scheme)).w.buf

\* The record of a guard over `data` created at `location`, with the
\* resolved palette `color_scheme`.
RecordText(data, color_scheme, location) ==
    IF color_scheme = None
    THEN PayloadText(data, color_scheme) \o S_AT \o LocationText(location) \o <<"\n">>
    ELSE PayloadText(data, color_scheme) \o S_AT \o Unwrap(color_scheme).location
             \o LocationText(location) \o Unwrap(color_scheme).default \o <<"\n">>

\* The record of the guard of the running function.
TopRecord == RecordText(Top.ctx.data, Top.ctx.color_scheme, Top.ctx.location)

TopSink == Top.ctx.writer

\* The writer w can take all of s.
HasRoom(w, s) ==
    w.kind \in {"FixedBufWriter", "IoLimitedWriter"} => StrLen(w.buf) + StrLen(s) <= w.cap

\* What the panic detector of the running function's guard reports.
DetectorReports ==
    IF Top.ctx.panic_detector = "StdPanicDetector" THEN panicking ELSE is_panicking

\* This step drops the guard of the running function.
GuardDropped ==
    /\ Top.ctx # NoGuard
    /\ \/ Len(frames') < Len(frames)
       \/ frames'[Len(frames)].ctx = NoGuard

\* This step is a print() call.
PrintCalled == prints' = prints + 1

\* All writers but the one of the running function's guard are left alone.
OtherSinksUnchanged == \A i \in DOMAIN sinks : i # TopSink => sinks'[i] = sinks[i]

\* This step appends exactly the record of the running function's guard.
TopRecordAppended ==
    /\ sinks'[TopSink].buf = sinks[TopSink].buf \o TopRecord
    /\ OtherSinksUnchanged

\* The text `after` is the text `before` followed by a part of the record of
\* the running function's guard, from its start.
IsPartOfTopRecord(before, after) ==
    /\ Len(before) <= Len(after)
    /\ Len(after) - Len(before) <= Len(TopRecord)
    /\ after = before \o SubSeq(TopRecord, 1, Len(after) - Len(before))

\* The data func k is entered with when func1 is called with (foo, bar).
FuncData(k) ==
    build_fn_foo_bar(FuncNames[k], cfg.foo * <<1, 2, 6>>[k], SubSeq(cfg.bar, k, Len(cfg.bar)))

\* The record of the guard of func k.
FuncRecord(k) == RecordText(FuncData(k), cfg.color_scheme, FuncLocation(k))

RECURSIVE InnermostFirst(_)
\* The records of func k, .., func1, in this order.
InnermostFirst(k) == IF k = 0 THEN <<>> ELSE FuncRecord(k) \o InnermostFirst(k - 1)

\* C1: a guard dropped while its panic detector reports "not panicking"
\* writes nothing: no writer changes in that step, whatever the payload, the
\* color scheme and the nesting depth.
C1_QuietDrop == [][GuardDropped /\ ~DetectorReports => sinks' = sinks]_vars

\* A chain of three nested guards has returned normally and all the
\* writers are empty.
C1_Witness ==
    /\ pc = "after" /\ result.tag = "Ok" /\ result.value = 5996
    /\ cfg.panic_detector = "StdPanicDetector" /\ cfg.color_scheme # None
    /\ \A i \in DOMAIN sinks : sinks[i].buf = <<>>

\* C2: a guard dropped while its panic detector reports "panicking" appends
\* to its writer, when the writer has room, exactly one record: the payload
\* rendering, "\n    at ", file:line:column and "\n", the location between the
\* scheme's `location` and `default` escapes when the guard holds a scheme;
\* nothing else is written.
C2_PanickingDropWritesRecord ==
    [][GuardDropped /\ DetectorReports /\ HasRoom(sinks[TopSink], TopRecord)
          => TopRecordAppended]_vars

\* func1 panicked on an empty bar and its colored record is all its writer holds.
C2_Witness ==
    /\ pc = "after" /\ result.tag = "Err" /\ panic_origin = 1 /\ prints = 0
    /\ cfg.writer = "FixedBufWriter" /\ cfg.color_scheme = Some(TEST_ANSI_COLOR_SCHEME)
    /\ sinks[1].buf =
         Flatten(<<TEST_ANSI_COLOR_SCHEME.fn_keyword, <<"f", "n", " ">>,
                   TEST_ANSI_COLOR_SCHEME.func_name, S_func1,
                   TEST_ANSI_COLOR_SCHEME.func_braces, <<"(">>,
                   TEST_ANSI_COLOR_SCHEME.default,
                   S_foo, <<":", " ">>, TEST_ANSI_COLOR_SCHEME.number,
                   ToDec(cfg.foo), TEST_ANSI_COLOR_SCHEME.default, <<",", " ">>,
                   S_bar, <<":", " ">>, TEST_ANSI_COLOR_SCHEME.quoted,
                   <<"\"", "\"">>, TEST_ANSI_COLOR_SCHEME.default,
                   TEST_ANSI_COLOR_SCHEME.func_braces, <<")">>,
                   TEST_ANSI_COLOR_SCHEME.default,
                   S_AT, TEST_ANSI_COLOR_SCHEME.location, S_file_fmt,
                   <<":", "3", "1", "4", ":", "2", "0">>,
                   TEST_ANSI_COLOR_SCHEME.default, <<"\n">>>>)

\* C3: with guards that use the standard detector and no print() call, once
\* func1 has returned or its panic has been caught: after a panic that
\* started in func k the guards of func1..func k have each written one
\* record, innermost first on a shared writer, the guards of the functions
\* never entered and the guard of the test body have written nothing; with
\* no panic nothing is written at all.
C3_RecordsOfThePanicSpan ==
    (pc \in {"after", "done"} /\ cfg.panic_detector = "StdPanicDetector" /\ prints = 0)
    => /\ sinks[0].buf = <<>>
       /\ result.tag = "Ok" => \A i \in 1..3 : sinks[i].buf = <<>>
       /\ result.tag = "Err" =>
            /\ panic_origin \in 1..3
            /\ IF SinkOf(2) = 1
               THEN sinks[1].buf = InnermostFirst(panic_origin)
               ELSE \A i \in 1..3 :
                        sinks[i].buf = IF i <= panic_origin THEN FuncRecord(i) ELSE <<>>

\* A panic in func3 has been caught and the shared writer holds the records
\* of func3, func2 and func1 in this order.
C3_Witness ==
    /\ pc = "after" /\ result.tag = "Err" /\ panic_origin = 3 /\ prints = 0
    /\ cfg.panic_detector = "StdPanicDetector" /\ cfg.writer = "ChannelWriter"
    /\ sinks[1].buf = FuncRecord(3) \o FuncRecord(2) \o FuncRecord(1)
    /\ sinks[0].buf = <<>>

\* C4 as stated: only the drop of a guard changes a writer, and a writer of
\* its own holds at most one record of its guard after the drop.
C4_OnlyDropRendersOnce ==
    [][/\ (Top.ctx # NoGuard /\ sinks' # sinks) => GuardDropped
       /\ (GuardDropped /\ (cfg.writer = "FixedBufWriter" \/ Top.fn = 0))
             => Len(sinks'[TopSink].buf) <= Len(TopRecord)]_vars

\* C4, amended: the writer of a guard changes only in a print() call and in
\* a drop under "panicking"; such a step leaves the other writers alone and
\* appends the guard's record once, or a part of it when the writer fails.
C4_RendersOnPrintAndPanickingDrop ==
    [][(Top.ctx # NoGuard /\ sinks' # sinks)
          => /\ PrintCalled \/ (GuardDropped /\ DetectorReports)
             /\ OtherSinksUnchanged
             /\ IsPartOfTopRecord(sinks[TopSink].buf, sinks'[TopSink].buf)
             /\ HasRoom(sinks[TopSink], TopRecord)
                    => sinks'[TopSink].buf = sinks[TopSink].buf \o TopRecord]_vars

\* func1 printed its guard once, then panicked: its writer holds two records.
C4_Witness ==
    /\ pc = "after" /\ result.tag = "Err" /\ panic_origin = 1 /\ prints = 1
    /\ cfg.writer = "FixedBufWriter" /\ cfg.panic_detector = "StdPanicDetector"
    /\ sinks[1].buf = FuncRecord(1) \o FuncRecord(1)

\* C5: print() appends one full record at once whatever the detector
\* reports, and leaves the guard in place and unchanged; a drop under
\* "panicking" of a guard whose writer holds the printed record appends a
\* second identical record, a drop under "not panicking" adds nothing.
C5_PrintKeepsGuardArmed ==
    [][/\ (PrintCalled /\ HasRoom(sinks[TopSink], TopRecord))
             => (TopRecordAppended /\ frames' = frames)
       /\ (GuardDropped /\ sinks[TopSink].buf = TopRecord /\ DetectorReports
               /\ HasRoom(sinks[TopSink], TopRecord))
             => sinks'[TopSink].buf = TopRecord \o TopRecord
       /\ (GuardDropped /\ sinks[TopSink].buf = TopRecord /\ ~DetectorReports)
             => sinks'[TopSink].buf = TopRecord]_vars

\* The guard of the test body was printed once and then dropped while its
\* detector reported "panicking": its writer holds two identical records.
C5_Witness ==
    /\ pc = "main" /\ Top.ctx = NoGuard /\ prints = 1
    /\ cfg.panic_detector = "DummyPanicDetector" /\ is_panicking
    /\ sinks[0].buf = RecordText(build_foo_bar(cfg.foo, cfg.bar), None, MainLocation)
                        \o RecordText(build_foo_bar(cfg.foo, cfg.bar), None, MainLocation)

\* The process-wide palette: the scheme of the latest set_default_color_scheme
\* call, the built-in one before any.
InstalledPalette ==
    IF last_scheme = None THEN DEFAULT_DEFAULT_COLOR_SCHEME ELSE Unwrap(last_scheme)

\* The process-wide flag: the argument of the latest set_colors_enabled call.
FlagSet == last_enabled = Some(TRUE)

\* This step creates the guard of the test body.
MainGuardCreated == Top.ctx = NoGuard /\ frames'[1].ctx # NoGuard

\* The palette of a guard created now with the argument color_arg, as C6 has it.
ClaimedPalette(color_arg) ==
    IF color_arg # NotGiven /\ color_arg[1] # None THEN color_arg[1]
    ELSE IF FlagSet THEN Some(InstalledPalette) ELSE None

\* The palette of a guard created now with the argument color_arg.
ResolvedPalette(color_arg) ==
    IF color_arg # NotGiven THEN color_arg[1]
    ELSE IF FlagSet THEN Some(InstalledPalette) ELSE None

\* C6 as stated: a guard is created with the palette p when its argument is
\* Some(p), and otherwise (None, or no argument) with the process-wide
\* palette when the flag is set and with none when it is not.
C6_NoneFallsBackToGlobal ==
    [][MainGuardCreated
          => frames'[1].ctx.color_scheme = ClaimedPalette(frames'[1].color_arg)]_vars

\* C6, amended: Some(p) gives p and an explicit None gives no palette,
\* whatever the process-wide settings are; without the argument the guard
\* takes the process-wide palette when the flag is set at its creation and
\* none when it is not.  The guard renders with the palette it was created
\* with: later changes of the settings do not change it.
C6_PaletteResolvedAtCreation ==
    [][/\ MainGuardCreated
             => frames'[1].ctx.color_scheme = ResolvedPalette(frames'[1].color_arg)
       /\ (last_enabled' # last_enabled \/ last_scheme' # last_scheme)
             => (frames' = frames /\ sinks' = sinks)
       /\ (PrintCalled /\ HasRoom(sinks[TopSink], TopRecord))
             => sinks'[TopSink].buf = sinks[TopSink].buf \o
                    RecordText(build_foo_bar(cfg.foo, cfg.bar), Top.ctx.color_scheme,
                               MainLocation)]_vars

\* A guard created without the argument while the flag was set has printed
\* its record in the built-in palette after the flag was cleared.
C6_Witness ==
    /\ Top.ctx # NoGuard /\ Top.color_arg = NotGiven
    /\ last_enabled = Some(FALSE) /\ prints = 1
    /\ sinks[0].buf = RecordText(build_foo_bar(cfg.foo, cfg.bar),
                                 Some(DEFAULT_DEFAULT_COLOR_SCHEME), MainLocation)

\* C7: are_colors_enabled() is false before any set_colors_enabled call and
\* the argument of the latest call after one.
C7_FlagIsLatestArgument == are_colors_enabled = FlagSet

\* The flag was set, a guard took the process-wide palette, and the flag
\* has been cleared again.
C7_Witness ==
    /\ Top.ctx # NoGuard /\ Top.color_arg = NotGiven /\ Top.ctx.color_scheme # None
    /\ last_enabled = Some(FALSE) /\ ~are_colors_enabled

\* C8: get_default_color_scheme() is the scheme of the latest
\* set_default_color_scheme call, the built-in one before any, whatever the
\* flag; get_default_color_scheme_if_enabled() is Some of it when
\* are_colors_enabled() and None otherwise.
C8_SchemeIsLatestArgument ==
    /\ get_default_color_scheme = InstalledPalette
    /\ get_default_color_scheme_if_enabled =
           IF are_colors_enabled THEN Some(InstalledPalette) ELSE None

\* A guard took the test scheme as the process-wide one, and the built-in
\* scheme has been installed again since.
C8_Witness ==
    /\ Top.ctx # NoGuard /\ Top.color_arg = NotGiven
    /\ Top.ctx.color_scheme = Some(TEST_ANSI_COLOR_SCHEME)
    /\ last_scheme = Some(DEFAULT_DEFAULT_COLOR_SCHEME)
    /\ get_default_color_scheme_if_enabled = Some(DEFAULT_DEFAULT_COLOR_SCHEME)

\* The text is one or more copies of the record.
IsCopies(text, record) ==
    /\ Len(text) >= Len(record)
    /\ Len(text) % Len(record) = 0
    /\ \A j \in 1..Len(text) : text[j] = record[((j - 1) % Len(record)) + 1]

\* The function whose guard has the writer of limited size.
Limited == CHOOSE k \in 1..3 : \A j \in 0..3 : cfg.buf_len[k] <= cfg.buf_len[j]

\* C9: a writer that fails, in a write or in the flush, changes nothing in
\* the run: print() returns into the same function, the unwinding goes on
\* frame by frame until it is caught, and once it is caught every guard of
\* the panic span whose own writes all succeeded has written its records in
\* full, one for each print() call and one for the drop.
C9_FailureIsDiscarded ==
    /\ [](pc = "after" =>
            /\ result.tag = "Err" /\ ~panicking /\ Len(frames) = 1
            /\ \A i \in 1..panic_origin :
                   (i # Limited /\ ~sinks[i].failed)
                       => IsCopies(sinks[i].buf, FuncRecord(i)))
    /\ [][/\ PrintCalled => (frames' = frames /\ pc' = pc /\ panicking' = panicking)
          /\ pc = "unwind" => (frames' = Pop(frames) /\ pc' \in {"unwind", "after"})]_vars

\* The writes and the flush of func2's guard failed during the unwinding,
\* and func1's guard has written its record all the same.
C9_Witness ==
    /\ pc = "after" /\ prints = 0 /\ Limited = 2
    /\ cfg.writer = "IoLimitedWriter" /\ ~cfg.flush_ok
    /\ sinks[2].failed /\ sinks[2].flush_failed /\ sinks[2].buf # FuncRecord(2)
    /\ sinks[1].flush_failed /\ sinks[1].buf = FuncRecord(1)

\* C10 as stated: after the unwinding the writer of each guard of the panic
\* span holds the guard's complete record or nothing.
C10_CompleteOrNothing ==
    (pc = "after" /\ prints = 0)
    => \A i \in 1..panic_origin : sinks[i].buf \in {<<>>, FuncRecord(i)}

\* C10, amended: after the unwinding the writer of each guard of the panic
\* span holds the guard's record from its start up to the point where the
\* writer failed: the complete record when the writer has room for it, and
\* otherwise a part of it, which is not taken back.
C10_CompleteOrPart ==
    (pc = "after" /\ prints = 0)
    => \A i \in 1..panic_origin :
           /\ Len(sinks[i].buf) <= Len(FuncRecord(i))
           /\ sinks[i].buf = SubSeq(FuncRecord(i), 1, Len(sinks[i].buf))
           /\ (sinks[i].buf = FuncRecord(i)) = (StrLen(FuncRecord(i)) <= cfg.buf_len[i])

\* The writer of func2's guard failed in the middle of the record and holds
\* the part written before.
C10_Witness ==
    /\ pc = "after" /\ prints = 0 /\ cfg.writer = "FixedBufWriter"
    /\ sinks[2].failed /\ sinks[2].buf # <<>> /\ sinks[2].buf # FuncRecord(2)
    /\ sinks[2].buf = SubSeq(FuncRecord(2), 1, Len(sinks[2].buf))

\* The value handed to debug_fmt and what the call returned.
FmtValue == Unwrap(fmt_value)

FmtResult == Unwrap(fmt_result)

\* debug_fmt has been called.
FmtCalled == fmt_result # None

\* The full output of v: what a writer that takes everything receives.
FullText(v) == Debug_fmt(v, Formatter(ChannelWriter)).w.buf

\* The Debug output of a value of an argument.
ValueText(v) == Flatten(DebugChunks(v))

\* "name: value", or "value" for an argument without a name.
EntryText(arg) ==
    IF arg.name = None THEN ValueText(arg.value)
    ELSE Unwrap(arg.name) \o <<":", " ">> \o ValueText(arg.value)

\* The entries in list order, ", " before every entry but the first.
JoinedEntries(args) ==
    Flatten([i \in 1..Len(args) |->
                (IF i = 1 THEN <<>> ELSE <<",", " ">>) \o EntryText(args[i])])

\* C11: for every argument, argument list and function record, plain or
\* colorized, whose full output has length L: debug_fmt into a buffer of
\* fewer than L bytes returns Err, never Ok with a shortened text, and
\* debug_fmt into a buffer of L bytes (or more) returns Ok with the full
\* output.
C11_ShortBufferFails ==
    FmtCalled =>
        IF buffer < FullLen(FmtValue)
        THEN FmtResult = [tag |-> "Err", str |-> <<>>]
        ELSE FmtResult = [tag |-> "Ok", str |-> FullText(FmtValue)]

\* The function record of two arguments was rendered into a buffer one byte
\* shorter than its full output and the call returned Err.
C11_Witness ==
    /\ FmtCalled
    /\ FmtValue.data.type = "UnwindContextFunc" /\ Len(FmtValue.data.args) = 2
    /\ buffer = FullLen(FmtValue) - 1
    /\ FmtResult.tag = "Err"

\* C12: the plain rendering of an argument list of any length is its
\* entries in list order, each `name: value` or `value` alone, joined by ", "
\* with no leading or trailing separator; the empty list renders as the
\* empty string.
C12_ArgsJoinedInOrder ==
    (/\ FmtCalled
     /\ FmtValue.color_scheme = None
     /\ FmtValue.data.type = "UnwindContextArgs"
     /\ buffer >= StrLen(JoinedEntries(FmtValue.data.args)))
    => FmtResult = [tag |-> "Ok", str |-> JoinedEntries(FmtValue.data.args)]

\* A list of a named and an unnamed argument was rendered.
C12_Witness ==
    /\ FmtCalled
    /\ FmtValue = Uncolored(UnwindContextArgs(<<UnwindContextArg(Some(S_foo), UsizeValue(1)),
                                                UnwindContextArg(None, UsizeValue(3))>>))
    /\ FmtResult = [tag |-> "Ok",
                    str |-> <<"f", "o", "o", ":", " ", "1", ",", " ", "3">>]

\* C13: the plain rendering of a function record is "fn ", the name, "(",
\* the plain rendering of its argument list, ")"; "fn name()" for the empty
\* list.
C13_FuncAroundArgs ==
    (/\ FmtCalled
     /\ FmtValue.color_scheme = None
     /\ FmtValue.data.type = "UnwindContextFunc"
     /\ FmtResult.tag = "Ok")
    => FmtResult.str = <<"f", "n", " ">> \o FmtValue.data.name \o <<"(">>
                           \o FullText(Uncolored(UnwindContextArgs(FmtValue.data.args)))
                           \o <<")">>

\* The function record without arguments was rendered as "fn foo()".
C13_Witness ==
    /\ FmtCalled
    /\ FmtValue = Uncolored(UnwindContextFunc(S_foo, <<>>))
    /\ FmtResult = [tag |-> "Ok", str |-> <<"f", "n", " ", "f", "o", "o", "(", ")">>]

RECURSIVE WithoutEscapes(_)
\* The text without the palette strings of TEST_ANSI_COLOR_SCHEME in it: each
\* starts with "{" and ends with the next "}".
WithoutEscapes(s) ==
    IF s = <<>> THEN <<>>
    ELSE IF Head(s) = "{"
         THEN WithoutEscapes(SubSeq(s, 1 + (CHOOSE k \in 1..Len(s) :
                                                 /\ s[k] = "}"
                                                 /\ \A j \in 1..(k - 1) : s[j] # "}"),
                                    Len(s)))
         ELSE <<Head(s)>> \o WithoutEscapes(Tail(s))

\* C14: for every argument, argument list and function record, debug_fmt of
\* the value colored with the palette of twelve empty strings returns, for
\* every buffer length, what debug_fmt of the value itself returns; and the
\* output colored with the test palette is the plain output with palette
\* strings added: every character once and in order.
C14_ColorIsAdditive ==
    (FmtCalled /\ FmtValue.color_scheme # None)
    => IF Unwrap(FmtValue.color_scheme) = EMPTY_COLOR_SCHEME
       THEN FmtResult = debug_fmt(buffer, Uncolored(FmtValue.data))
       ELSE FmtResult.tag = "Ok"
                => WithoutEscapes(FmtResult.str) = FullText(Uncolored(FmtValue.data))

\* The function record of a text argument and a number was rendered with the
\* empty palette and came out as its plain text.
C14_Witness ==
    /\ FmtCalled
    /\ FmtValue.color_scheme = Some(EMPTY_COLOR_SCHEME)
    /\ FmtValue.data.type = "UnwindContextFunc"
    /\ Len(FmtValue.data.args) = 2
    /\ FmtValue.data.args[1].value.kind = "Debug"
    /\ FmtResult = [tag |-> "Ok", str |-> FullText(Uncolored(FmtValue.data))]
    /\ FmtResult.str # <<>>

\* The text handed to the colorizer by fmt_str_as_arg.
LexText == FmtValue.data.value.chunks[1]

Styles == {"Default", "Ident", "Item", "Boolean", "Number", "Quoted", "Escaped", "Brace"}

\* The style that the palette string esc of the test palette stands for.
StyleOfEscape(esc) ==
    CHOOSE st \in Styles : ansi_style(st, TEST_ANSI_COLOR_SCHEME) = esc

\* The end of the palette string that s starts with.
EscapeEnd(s) == CHOOSE k \in 1..Len(s) : s[k] = "}" /\ \A j \in 1..(k - 1) : s[j] # "}"

RECURSIVE StylesOf(_, _)
\* The style of each character of a colored output that has no braces of its
\* own: the style of the palette string written last before it; st is the
\* style in force at the start of s.
StylesOf(s, st) ==
    IF s = <<>> THEN <<>>
    ELSE IF Head(s) = "{"
         THEN StylesOf(SubSeq(s, EscapeEnd(s) + 1, Len(s)),
                       StyleOfEscape(SubSeq(s, 1, EscapeEnd(s))))
         ELSE <<st>> \o StylesOf(Tail(s), st)

\* The style given to each character of the text rendered by debug_fmt.
LexStyles == StylesOf(FmtResult.str, "Default")

Keywords == {<<"t", "r", "u", "e">>, <<"f", "a", "l", "s", "e">>}

\* The keyword kw stands in s from position j on.
KeywordAt(s, j, kw) ==
    j + Len(kw) - 1 <= Len(s) /\ SubSeq(s, j, j + Len(kw) - 1) = kw

\* The keyword kw at position j of s is a whole token: the end of the input
\* or a character that is neither alphanumeric nor "_" follows it.
WholeTokenAt(s, j, kw) ==
    /\ KeywordAt(s, j, kw)
    /\ \/ j + Len(kw) > Len(s)
       \/ ~is_alphanumeric(s[j + Len(kw)]) /\ s[j + Len(kw)] # "_"

\* The text s was rendered and the characters of the keyword kw at its
\* position j all have the style Boolean.
RenderedBoolean(s, j, kw) ==
    /\ FmtCalled /\ FmtResult.tag = "Ok" /\ LexText = s
    /\ \A i \in j..(j + Len(kw) - 1) : LexStyles[i] = "Boolean"

\* The text s was rendered and none of its characters has the style Boolean.
RenderedNoBoolean(s) ==
    /\ FmtCalled /\ FmtResult.tag = "Ok" /\ LexText = s
    /\ \A i \in 1..Len(s) : LexStyles[i] # "Boolean"

\* C15: in the colorized rendering of a text, a character has the style
\* Boolean only if it belongs to a keyword `true` or `false` that is a whole
\* token, followed by the end of the input or by a character that is neither
\* alphanumeric nor "_".  So nothing of "true1", "true_", "truetrue" is
\* Boolean, and the keyword in "(true)", "true-false", "true false" is.
C15_BooleanIsWholeKeyword ==
    (FmtCalled /\ FmtResult.tag = "Ok")
    => /\ \A i \in 1..Len(LexText) :
              LexStyles[i] = "Boolean"
              => \E kw \in Keywords : \E j \in 1..i :
                     i <= j + Len(kw) - 1 /\ WholeTokenAt(LexText, j, kw)
       /\ LexText = <<"(", "t", "r", "u", "e", ")">>
              => RenderedBoolean(LexText, 2, <<"t", "r", "u", "e">>)
       /\ LexText \in {<<"t", "r", "u", "e", "-", "f", "a", "l", "s", "e">>,
                       <<"t", "r", "u", "e", " ", "f", "a", "l", "s", "e">>}
              => RenderedBoolean(LexText, 1, <<"t", "r", "u", "e">>)

\* C16: inside a double- or single-quoted run the character right after an
\* unescaped backslash has the style Escaped whatever it is, and it does not
\* close the run when it is the quote: in a text that opens a quoted run,
\* goes on with plain characters and then has a backslash, the backslash and
\* the character after it are Escaped and the character after those is still
\* inside the run.  `"\""` and `'\''` are one quoted run each, with one
\* escaped pair, closed by the last quote.
C16_EscapedAfterBackslash ==
    (FmtCalled /\ FmtResult.tag = "Ok")
    => /\ \A i \in 2..(Len(LexText) - 1) :
              (/\ LexText[1] \in {"\"", "'"}
               /\ \A k \in 2..(i - 1) : LexText[k] = "a"
               /\ LexText[i] = "\\")
              => /\ \A k \in 1..(i - 1) : LexStyles[k] = "Quoted"
                 /\ LexStyles[i] = "Escaped"
                 /\ LexStyles[i + 1] = "Escaped"
                 /\ i + 2 <= Len(LexText)
                        => LexStyles[i + 2] =
                               (IF LexText[i + 2] = "\\" THEN "Escaped" ELSE "Quoted")
       /\ \A q \in {"\"", "'"} :
              LexText = <<q, "\\", q, q>>
              => FmtResult.str = TEST_ANSI_COLOR_SCHEME.quoted \o <<q>>
                                     \o TEST_ANSI_COLOR_SCHEME.escaped \o <<"\\", q>>
                                     \o TEST_ANSI_COLOR_SCHEME.quoted \o <<q>>
                                     \o TEST_ANSI_COLOR_SCHEME.default

\* The text `"\""` was rendered: quote, escaped pair, closing quote.
C16_Witness ==
    /\ FmtCalled /\ FmtResult.tag = "Ok"
    /\ LexText = <<"\"", "\\", "\"", "\"">>
    /\ LexStyles = <<"Quoted", "Escaped", "Escaped", "Quoted">>

\* The palette of a colored value handed to debug_fmt.
FmtPalette == Unwrap(FmtValue.color_scheme)

\* C17: the colorized rendering of a function record is, in this order: the
\* fn_keyword escape, "fn ", the func_name escape, the name, the func_braces
\* escape, "(", the default escape, the colorized argument list, the
\* func_braces escape, ")", the default escape; also for the empty list.
C17_ColoredFuncOrder ==
    (/\ FmtCalled
     /\ FmtValue.color_scheme # None
     /\ FmtValue.data.type = "UnwindContextFunc"
     /\ FmtResult.tag = "Ok")
    => FmtResult.str =
           FmtPalette.fn_keyword \o <<"f", "n", " ">>
               \o FmtPalette.func_name \o FmtValue.data.name
               \o FmtPalette.func_braces \o <<"(">>
               \o FmtPalette.default
               \o FullText(AnsiColored(UnwindContextArgs(FmtValue.data.args), FmtPalette))
               \o FmtPalette.func_braces \o <<")">>
               \o FmtPalette.default

\* The function record without arguments was rendered with the test palette.
C17_Witness ==
    /\ FmtCalled
    /\ FmtValue = AnsiColored(UnwindContextFunc(S_foo, <<>>), TEST_ANSI_COLOR_SCHEME)
    /\ FmtResult.tag = "Ok"
    /\ FmtResult.str = TEST_ANSI_COLOR_SCHEME.fn_keyword \o <<"f", "n", " ">>
                           \o TEST_ANSI_COLOR_SCHEME.func_name \o S_foo
                           \o TEST_ANSI_COLOR_SCHEME.func_braces \o <<"(">>
                           \o TEST_ANSI_COLOR_SCHEME.default
                           \o TEST_ANSI_COLOR_SCHEME.func_braces \o <<")">>
                           \o TEST_ANSI_COLOR_SCHEME.default

\* The text an item of a macro call stands for in the output.
ItemText(item) ==
    CASE item.kind = "..."     -> <<".", ".", ".">>
      [] item.kind = "literal" -> ValueText(Unwrap(item.value))
      [] OTHER -> item.tokens \o <<":", " ">> \o ValueText(Unwrap(item.value))

\* The items' texts in the order of the call, joined by ", ".
JoinedItems(items) ==
    Flatten([i \in 1..Len(items) |->
                (IF i = 1 THEN <<>> ELSE <<",", " ">>) \o ItemText(items[i])])

\* The output the macro call stands for.
CallText(call) ==
    IF call.form = "args" THEN JoinedItems(call.items)
    ELSE <<"f", "n", " ">> \o call.name \o <<"(">> \o JoinedItems(call.items) \o <<")">>

\* The argument built from the item: named by its source text for an
\* expression, unnamed for a literal, the unnamed marker for `...`.
ArgOfItem(arg, item) ==
    CASE item.kind = "..."     -> arg.name = None /\ ValueText(arg.value) = <<".", ".", ".">>
      [] item.kind = "literal" -> arg.name = None /\ arg.value = Unwrap(item.value)
      [] OTHER -> arg.name = Some(item.tokens) /\ arg.value = Unwrap(item.value)

\* C18: build_unwind_context_data! maps its items to an argument list in the
\* same order: an expression becomes an argument named by its source text, a
\* literal an unnamed argument, `...` at any position an unnamed marker that
\* renders as "..."; the `fn name(..)` and `fn "path"(..)` forms wrap the list
\* in a function record of that name.
C18_ItemsBecomeArgsInOrder ==
    (fmt_value # None /\ "context" \in DOMAIN cfg)
    => /\ Len(FmtValue.data.args) = Len(cfg.context.items)
       /\ \A i \in 1..Len(cfg.context.items) :
              ArgOfItem(FmtValue.data.args[i], cfg.context.items[i])
       /\ IF cfg.context.form = "args"
          THEN FmtValue.data.type = "UnwindContextArgs"
          ELSE /\ FmtValue.data.type = "UnwindContextFunc"
               /\ FmtValue.data.name = cfg.context.name
       /\ FmtCalled => FmtResult = [tag |-> "Ok", str |-> CallText(cfg.context)]

\* build_unwind_context_data!(fn func(foo, ..., 234)) was built and rendered.
C18_Witness ==
    /\ FmtCalled
    /\ cfg.context = [form |-> "fn ident", name |-> <<"f", "u", "n", "c">>,
                      items |-> <<Item("expr", S_foo, Some(UsizeValue(123))), Item("...", <<".", ".", ".">>, None),
                                  Item("literal", <<"2", "3", "4">>, Some(UsizeValue(234)))>>]
    /\ FmtResult = [tag |-> "Ok",
                    str |-> <<"f", "n", " ", "f", "u", "n", "c", "(", "f", "o", "o", ":", " ",
                              "1", "2", "3", ",", " ", ".", ".", ".", ",", " ",
                              "2", "3", "4", ")">>]

\* C20: in the chain func1 -> func2 -> func3 every guard that writes, on
\* print() or on a drop its detector reports as panicking, appends the record
\* of the values its own function was entered with: func k shows foo times
\* 1, 2, 6 and bar without its first k - 1 characters, whatever was computed
\* for or by its callees before the guard wrote (the writer having room).
C20_RecordShowsReceivedValues ==
    [][(/\ Top.fn \in 1..3
        /\ PrintCalled \/ (GuardDropped /\ DetectorReports)
        /\ HasRoom(sinks[TopSink], FuncRecord(Top.fn)))
          => /\ sinks'[TopSink].buf = sinks[TopSink].buf \o FuncRecord(Top.fn)
             /\ OtherSinksUnchanged]_vars

\* func1(1000, "ab") has returned 6000 with the flag of the dummy detector
\* set: each writer holds the record of its own function's parameters.
C20_Witness ==
    /\ pc = "after" /\ result = [tag |-> "Ok", value |-> 6000] /\ prints = 0
    /\ cfg.writer = "FixedBufWriter" /\ cfg.color_scheme = None
    /\ cfg.bar = <<"a", "b">>
    /\ sinks[1].buf = RecordText(build_fn_foo_bar(S_func1, 1000, <<"a", "b">>), None, FuncLocation(1))
    /\ sinks[2].buf = RecordText(build_fn_foo_bar(S_func2, 2000, <<"b">>), None, FuncLocation(2))
    /\ sinks[3].buf = RecordText(build_fn_foo_bar(S_func3, 6000, <<>>), None, FuncLocation(3))

\* The record of the guard of func_with_debug_unwind_context.
DebugFuncRecord ==
    RecordText(build_fn_foo_bar(S_func_with_debug_unwind_context, cfg.foo, cfg.bar),
               cfg.color_scheme, DebugFuncLocation(GuardType(cfg)))

\* What the panic detector handed to the macro reports.
DebugDetectorReports ==
    IF cfg.panic_detector = "StdPanicDetector" THEN panicking ELSE is_panicking

\* C19: in a build with debug assertions a debug_* macro gives the guard of
\* its non-debug counterpart: leaving the function appends the guard's record
\* when the detector reports "panicking" and writes nothing otherwise; in a
\* build without debug assertions there is no guard and leaving the function
\* writes nothing, also when it unwinds.
C19_DebugMacroFollowsBuild ==
    [][(Top.fn = 4 /\ Len(frames') < Len(frames))
          => IF cfg.debug_assertions
             THEN /\ Top.ctx = unwind_context_with(
                                   GuardType(cfg),
                                   build_fn_foo_bar(S_func_with_debug_unwind_context, cfg.foo, cfg.bar),
                                   1, cfg.panic_detector, Given(cfg.color_scheme),
                                   DebugFuncLocation(GuardType(cfg)))
                  /\ IF DebugDetectorReports
                     THEN /\ sinks'[1].buf = sinks[1].buf \o DebugFuncRecord
                          /\ \A i \in DOMAIN sinks : i # 1 => sinks'[i] = sinks[i]
                     ELSE sinks' = sinks
             ELSE Top.ctx = NoGuard /\ sinks' = sinks]_vars

\* func_with_debug_unwind_context(2, "abc") has unwound in a build without
\* debug assertions and no writer holds anything.
C19_Witness ==
    /\ pc = "after" /\ result.tag = "Err" /\ panic_origin = 4
    /\ ~cfg.debug_assertions /\ cfg.panic_detector = "StdPanicDetector"
    /\ \A i \in DOMAIN sinks : sinks[i].buf = <<>>

\* The guard of the running function writes in this step: print(), or a drop
\* its detector reports as panicking.
TopGuardWrites == PrintCalled \/ (GuardDropped /\ DetectorReports)

\* The step appends the record of `fn name(foo: .., bar: ..)` at func k's
\* call site to the writer of the running function's guard.
AppendsRecordOf(k, foo, bar) ==
    sinks'[TopSink].buf =
        sinks[TopSink].buf
            \o RecordText(build_fn_foo_bar(FuncNames[k], foo, bar), cfg.color_scheme, FuncLocation(k))

\* C21 as stated: func1 called with (1000, "abcdef"): when the guard of func3
\* writes, it writes the record of `fn func3(foo: 6000, bar: "")`, and the
\* guard of func1 that of `fn func1(foo: 1000, bar: "abcdef")`.
C21_AbcdefSlicedToEmpty ==
    [][(/\ cfg.foo = 1000 /\ cfg.bar = <<"a", "b", "c", "d", "e", "f">>
        /\ Top.fn \in {1, 3} /\ TopGuardWrites
        /\ HasRoom(sinks[TopSink], TopRecord))
          => IF Top.fn = 3 THEN AppendsRecordOf(3, 6000, <<>>)
             ELSE AppendsRecordOf(1, 1000, <<"a", "b", "c", "d", "e", "f">>)]_vars

\* C21: func1 called with (1000, "ab"), the input whose bar func3 receives
\* as "": when the guard of func3 writes, it writes the record of
\* `fn func3(foo: 6000, bar: "")`, and the guard of func1 that of
\* `fn func1(foo: 1000, bar: "ab")`.
C21_AbSlicedToEmpty ==
    [][(/\ cfg.foo = 1000 /\ cfg.bar = <<"a", "b">>
        /\ Top.fn \in {1, 3} /\ TopGuardWrites
        /\ HasRoom(sinks[TopSink], TopRecord))
          => IF Top.fn = 3 THEN AppendsRecordOf(3, 6000, <<>>)
             ELSE AppendsRecordOf(1, 1000, <<"a", "b">>)]_vars

\* func1(1000, "ab") has returned with the flag of the dummy detector set and
\* the shared writer holds the plain records of func3, func2 and func1.
C21_Witness ==
    /\ pc = "after" /\ result.tag = "Ok" /\ prints = 0
    /\ cfg.writer = "ChannelWriter" /\ cfg.color_scheme = None
    /\ sinks[1].buf =
         Flatten(<<<<"f", "n", " ", "f", "u", "n", "c", "3", "(", "f", "o", "o", ":", " ", "6", "0", "0", "0", ",", " ", "b", "a", "r", ":", " ", "\"", "\"", ")">>,
                   S_AT, S_file_fmt, <<":", "3", "6", "3", ":", "2", "0", "\n">>,
                   <<"f", "n", " ", "f", "u", "n", "c", "2", "(", "f", "o", "o", ":", " ", "2", "0", "0", "0", ",", " ", "b", "a", "r", ":", " ", "\"", "b", "\"", ")">>,
                   S_AT, S_file_fmt, <<":", "3", "4", "0", ":", "2", "0", "\n">>,
                   <<"f", "n", " ", "f", "u", "n", "c", "1", "(", "f", "o", "o", ":", " ", "1", "0", "0", "0", ",", " ", "b", "a", "r", ":", " ", "\"", "a", "b", "\"", ")">>,
                   S_AT, S_file_fmt, <<":", "3", "1", "4", ":", "2", "0", "\n">>>>)

\* The position of the last "{" of s, 0 when s has none.
LastEscapeStart(s) ==
    IF \A k \in 1..Len(s) : s[k] # "{" THEN 0
    ELSE CHOOSE k \in 1..Len(s) : s[k] = "{" /\ \A j \in (k + 1)..Len(s) : s[j] # "{"

\* C22: the colorized rendering of a text as one argument value ends in the
\* default style.  When the last character was written in a style other than
\* Default (the text may end inside a quoted or an escape run) the output
\* ends with that character followed by exactly one `default` escape; when
\* it was written in the style Default the output ends with the character;
\* the empty text gives the empty output.  So the last escape of the output,
\* if there is one, is `default`.
C22_EndsInDefaultStyle ==
    (FmtCalled /\ FmtResult.tag = "Ok")
    => LET out  == FmtResult.str
           n    == Len(LexText)
           def  == TEST_ANSI_COLOR_SCHEME.default
           body == SubSeq(out, 1, Len(out) - Len(def))
       IN  /\ Len(LexStyles) = n
           /\ n = 0 => out = <<>>
           /\ (n > 0 /\ LexStyles[n] # "Default")
                  => /\ Len(out) > Len(def)
                     /\ out = body \o def
                     /\ body[Len(body)] = LexText[n]
           /\ (n > 0 /\ LexStyles[n] = "Default") => out[Len(out)] = LexText[n]
           /\ LastEscapeStart(out) > 0
                  => LET rest == SubSeq(out, LastEscapeStart(out), Len(out))
                     IN  SubSeq(rest, 1, EscapeEnd(rest)) = def

\* A text that ends inside an escape run, a quote and a backslash, was
\* rendered: one default escape follows the backslash.
C22_Witness ==
    /\ FmtCalled /\ FmtResult.tag = "Ok"
    /\ LexText = <<"\"", "\\">>
    /\ FmtResult.str = TEST_ANSI_COLOR_SCHEME.quoted \o <<"\"">>
                           \o TEST_ANSI_COLOR_SCHEME.escaped \o <<"\\">>
                           \o TEST_ANSI_COLOR_SCHEME.default

\* The guard of the running function is an UnwindContextWithIo and writes in
\* this step.
TopIoGuardWrites ==
    /\ Top.ctx # NoGuard
    /\ Top.ctx.type = "UnwindContextWithIo"
    /\ TopGuardWrites

\* C23: a step in which an UnwindContextWithIo renders, in print() or in a
\* drop its detector reports as panicking, makes exactly one flush call on
\* the guard's writer, after the last write of the record: the flush finds
\* all that was written; the other writers are not flushed, and a step in
\* which no such guard renders flushes no writer (a writer's count of flush
\* calls does not grow; a new writer starts at zero).
C23_OneFlushAfterRender ==
    [][\A i \in DOMAIN sinks :
          IF TopIoGuardWrites /\ i = TopSink
          THEN /\ sinks'[i].flushes = sinks[i].flushes + 1
               /\ sinks'[i].flushed = Len(sinks'[i].buf)
          ELSE sinks'[i].flushes <= sinks[i].flushes]_vars

\* A panic in func3 was caught: the three io guards rendered into the shared
\* writer, which was flushed three times, last after the record of func1.
C23_Witness ==
    /\ pc = "after" /\ result.tag = "Err" /\ panic_origin = 3 /\ prints = 0
    /\ cfg.writer = "IoChannelWriter"
    /\ sinks[1].buf = FuncRecord(3) \o FuncRecord(2) \o FuncRecord(1)
    /\ sinks[1].flushes = 3
    /\ sinks[1].flushed = Len(sinks[1].buf)

\* fmt_colored has returned what debug_fmt of the value returns.
StepwiseAgrees ==
    (colored_writer # None /\ fmt_result # None)
    => FmtResult = debug_fmt(buffer, FmtValue)

\* The ColoredWriter handles one character in this step.
WriteStep == colored_writer # None /\ cw_offset' = cw_offset + 1

\* The character handled in this step, the mode before and the mode after.
StepChar == ColoredText[cw_offset]

ModeBefore == Unwrap(colored_writer).mode

ModeAfter == Unwrap(colored_writer').mode

\* A keyword true or false that is a whole token stands at position j of s.
WholeKeywordAt(s, j) == \E kw \in Keywords : WholeTokenAt(s, j, kw)

\* C24: from the modes Default, QuotedEnd and Brace alike a character leads
\* to: Number for an ASCII digit, "+", "-", "."; Brace for one of ( ) [ ] { };
\* Ident for "_"; DoubleQuoted for the double quote; SingleQuoted for the
\* apostrophe; Item for an ASCII uppercase letter; for any other
\* alphanumeric character Boolean when a keyword true or false that is a
\* whole token starts at it, Ident otherwise; Default for anything else.
C24_FromDefaultQuotedEndBrace ==
    [][(WriteStep /\ ModeBefore \in {"Default", "QuotedEnd", "Brace"})
          => ModeAfter =
                 IF StepChar \in Digit \cup {"+", "-", "."} THEN "Number"
                 ELSE IF StepChar \in {"(", ")", "[", "]", "{", "}"} THEN "Brace"
                 ELSE IF StepChar = "_" THEN "Ident"
                 ELSE IF StepChar = "\"" THEN "DoubleQuoted"
                 ELSE IF StepChar = "'" THEN "SingleQuoted"
                 ELSE IF StepChar \in Upper THEN "Item"
                 ELSE IF is_alphanumeric(StepChar)
                      THEN IF WholeKeywordAt(ColoredText, cw_offset)
                           THEN "Boolean" ELSE "Ident"
                 ELSE "Default"]_vars

\* The text s has been rendered character by character and debug_fmt returns
\* Ok(out) in the state after this step.
RendersAs(s, out) ==
    (fmt_result' # None /\ ColoredText = s) => Unwrap(fmt_result') = [tag |-> "Ok", str |-> out]

\* C25: from the modes Ident and Item a character leads to: Brace for one of
\* ( ) [ ] { }; the same mode for "#", "_" and for every alphanumeric
\* character, digits included; DoubleQuoted for the double quote;
\* SingleQuoted for the apostrophe; Default for anything else, "+", "-", "."
\* included.  So foo123, foo_bar and r#raw are one Ident run each and b'1'
\* is an Ident run followed by a quoted run.
C25_FromIdentItem ==
    [][/\ (WriteStep /\ ModeBefore \in {"Ident", "Item"})
          => ModeAfter =
                 IF StepChar \in {"(", ")", "[", "]", "{", "}"} THEN "Brace"
                 ELSE IF StepChar \in {"#", "_"} THEN ModeBefore
                 ELSE IF StepChar = "\"" THEN "DoubleQuoted"
                 ELSE IF StepChar = "'" THEN "SingleQuoted"
                 ELSE IF is_alphanumeric(StepChar) THEN ModeBefore
                 ELSE "Default"
       /\ \A s \in {<<"f", "o", "o", "1", "2", "3">>,
                    <<"f", "o", "o", "_", "b", "a", "r">>,
                    <<"r", "#", "r", "a", "w">>} :
              RendersAs(s, TEST_ANSI_COLOR_SCHEME.ident \o s \o TEST_ANSI_COLOR_SCHEME.default)
       /\ RendersAs(<<"b", "'", "1", "'">>,
                    TEST_ANSI_COLOR_SCHEME.ident \o <<"b">> \o TEST_ANSI_COLOR_SCHEME.quoted
                        \o <<"'", "1", "'">> \o TEST_ANSI_COLOR_SCHEME.default)]_vars

\* A sign after an uppercase letter has ended the Item run: the mode is
\* Default before the third character.
C25_Witness ==
    /\ colored_writer # None /\ cw_offset = 3
    /\ SubSeq(ColoredText, 1, 2) = <<"A", "+">>
    /\ SelfWriter.mode = "Default"
    /\ SelfWriter.writer.w.buf = TEST_ANSI_COLOR_SCHEME.item \o <<"A">> \o TEST_ANSI_COLOR_SCHEME.default \o <<"+">>

\* C26: from the mode Boolean a character leads to: Number for an ASCII
\* digit, "+", "-", "."; Brace for one of ( ) [ ] { }; Ident for "#" and "_";
\* DoubleQuoted for the double quote; SingleQuoted for the apostrophe;
\* Boolean again for any other alphanumeric character; Default for anything
\* else.
C26_FromBoolean ==
    [][(WriteStep /\ ModeBefore = "Boolean")
          => ModeAfter =
                 IF StepChar \in Digit \cup {"+", "-", "."} THEN "Number"
                 ELSE IF StepChar \in {"(", ")", "[", "]", "{", "}"} THEN "Brace"
                 ELSE IF StepChar \in {"#", "_"} THEN "Ident"
                 ELSE IF StepChar = "\"" THEN "DoubleQuoted"
                 ELSE IF StepChar = "'" THEN "SingleQuoted"
                 ELSE IF is_alphanumeric(StepChar) THEN "Boolean"
                 ELSE "Default"]_vars

\* `true#` has been written: the keyword is Boolean and "#" starts an Ident run.
C26_Witness ==
    /\ colored_writer # None /\ cw_offset = 6
    /\ ColoredText = <<"t", "r", "u", "e", "#">>
    /\ SelfWriter.mode = "Ident"
    /\ SelfWriter.writer.w.buf = TEST_ANSI_COLOR_SCHEME.boolean \o <<"t", "r", "u", "e">>
                                    \o TEST_ANSI_COLOR_SCHEME.ident \o <<"#">>

\* C27: from the mode Number a character leads to: Number again for an ASCII
\* digit, "+", "-", "." and "_"; Brace for one of ( ) [ ] { }; DoubleQuoted
\* for the double quote; SingleQuoted for the apostrophe; Ident for any other
\* alphanumeric character; Default for anything else.
C27_FromNumber ==
    [][(WriteStep /\ ModeBefore = "Number")
          => ModeAfter =
                 IF StepChar \in Digit \cup {"+", "-", ".", "_"} THEN "Number"
                 ELSE IF StepChar \in {"(", ")", "[", "]", "{", "}"} THEN "Brace"
                 ELSE IF StepChar = "\"" THEN "DoubleQuoted"
                 ELSE IF StepChar = "'" THEN "SingleQuoted"
                 ELSE IF is_alphanumeric(StepChar) THEN "Ident"
                 ELSE "Default"]_vars

\* `1_a` has been written: "_" went on with the number, the letter started
\* an Ident run.
C27_Witness ==
    /\ colored_writer # None /\ cw_offset = 4
    /\ ColoredText = <<"1", "_", "a">>
    /\ SelfWriter.mode = "Ident"
    /\ SelfWriter.writer.w.buf = TEST_ANSI_COLOR_SCHEME.number \o <<"1", "_">> \o TEST_ANSI_COLOR_SCHEME.ident \o <<"a">>

QuotedModes ==
    {"DoubleQuoted", "DoubleQuotedEscapeChar", "DoubleQuotedEscaped",
     "SingleQuoted", "SingleQuotedEscapeChar", "SingleQuotedEscaped"}

\* The quote character of the run that the quoted mode m is in.
QuoteOf(m) ==
    IF m \in {"DoubleQuoted", "DoubleQuotedEscapeChar", "DoubleQuotedEscaped"}
    THEN "\"" ELSE "'"

\* The three modes of a run opened by the quote character q.
ModesOf(q) ==
    IF q = "\""
    THEN [plain |-> "DoubleQuoted", escape_char |-> "DoubleQuotedEscapeChar",
          escaped |-> "DoubleQuotedEscaped"]
    ELSE [plain |-> "SingleQuoted", escape_char |-> "SingleQuotedEscapeChar",
          escaped |-> "SingleQuotedEscaped"]

\* C28: inside a quoted run only the quote character that opened it closes
\* it (QuotedEnd): the other quote character stays in the run; a backslash
\* leads to the escape-char mode, whatever follows it to the escaped mode,
\* and from the escaped mode the run goes on as from the quoted mode, with
\* the same quote character.  No character inside a run leads to Number,
\* Ident, Item, Boolean, Brace or Default.
C28_InsideQuotedRun ==
    [][(WriteStep /\ ModeBefore \in QuotedModes)
          => LET q == QuoteOf(ModeBefore)
                 m == ModesOf(q)
             IN  /\ ModeAfter =
                        IF ModeBefore = m.escape_char THEN m.escaped
                        ELSE IF StepChar = q THEN "QuotedEnd"
                        ELSE IF StepChar = "\\" THEN m.escape_char
                        ELSE m.plain
                 /\ ModeAfter \in QuotedModes \cup {"QuotedEnd"}
                 /\ ModeAfter \in QuotedModes => QuoteOf(ModeAfter) = q]_vars

\* An apostrophe inside a double-quoted run has been written and the run
\* goes on.
C28_Witness ==
    /\ colored_writer # None /\ cw_offset = 3
    /\ SubSeq(ColoredText, 1, 2) = <<"\"", "'">>
    /\ SelfWriter.mode = "DoubleQuoted"
    /\ SelfWriter.writer.w.buf = TEST_ANSI_COLOR_SCHEME.quoted \o <<"\"", "'">>

\* The category of a mode: the quoted modes and QuotedEnd are Quoted, the
\* escape modes Escaped, every other mode is a category of its own.
Category(m) ==
    IF m \in {"DoubleQuoted", "SingleQuoted", "QuotedEnd"} THEN "Quoted"
    ELSE IF m \in QuotedModes THEN "Escaped"
    ELSE m

\* The palette escape of a category, in the palette of the ColoredWriter.
EscapeOf(c) ==
    LET palette == Unwrap(colored_writer).color_scheme
    IN  CASE c = "Default" -> palette.default
          [] c = "Ident"   -> palette.ident
          [] c = "Item"    -> palette.item
          [] c = "Boolean" -> palette.boolean
          [] c = "Number"  -> palette.number
          [] c = "Quoted"  -> palette.quoted
          [] c = "Escaped" -> palette.escaped
          [] c = "Brace"   -> palette.value_braces

\* What the formatter behind the ColoredWriter has received, before and
\* after this step.
Written == Unwrap(colored_writer).writer.w.buf

WrittenAfter == Unwrap(colored_writer').writer.w.buf

\* This step writes the character, right after the escape of the new
\* category exactly when that category is not `previous`.
WritesComparedWith(previous) ==
    WrittenAfter =
        Written \o (IF Category(ModeAfter) # previous
                     THEN EscapeOf(Category(ModeAfter)) ELSE <<>>)
                \o <<StepChar>>

\* C29: every character of a value is written right after the escape of its
\* category when that category differs from the category of the mode before
\* it, and with no escape before it when the two are the same; the first
\* character is compared with Default.
C29_EscapeOnCategoryChange ==
    [][WriteStep
          => /\ cw_offset = 1 => ModeBefore = "Default"
             /\ WritesComparedWith(Category(ModeBefore))]_vars

\* A letter and an uppercase letter after it have been written: one Ident
\* run, one escape.
C29_Witness ==
    /\ colored_writer # None /\ cw_offset = 3
    /\ ColoredText = <<"a", "A">>
    /\ SelfWriter.mode = "Ident"
    /\ Written = TEST_ANSI_COLOR_SCHEME.ident \o <<"a", "A">>

\* C30 as stated: the closing quote is written in the category Quoted and
\* the character after it is compared with Default.
C30_QuotedEndComparesAsDefault ==
    [][/\ (WriteStep /\ ModeAfter = "QuotedEnd") => WritesComparedWith(Category(ModeBefore))
       /\ (WriteStep /\ ModeBefore = "QuotedEnd") => WritesComparedWith("Default")]_vars

\* C30: the closing quote is written in the category Quoted and the
\* character after it is compared with Quoted: QuotedEnd counts as Quoted.
C30_QuotedEndComparesAsQuoted ==
    [][/\ (WriteStep /\ ModeAfter = "QuotedEnd") => WritesComparedWith(Category(ModeBefore))
       /\ (WriteStep /\ ModeBefore = "QuotedEnd") => WritesComparedWith("Quoted")]_vars

\* A space after an empty string literal has been written: the default
\* escape stands between the closing quote and the space.
C30_Witness ==
    /\ colored_writer # None /\ cw_offset = 4
    /\ ColoredText = <<"\"", "\"", " ">>
    /\ SelfWriter.mode = "Default"
    /\ Written = TEST_ANSI_COLOR_SCHEME.quoted \o <<"\"", "\"">> \o TEST_ANSI_COLOR_SCHEME.default \o <<" ">>

\* ------------------------------------------------ failures while rendering

\* The writer test_util.rs's buf_fmt built over the buffer, as the finished
\* debug_fmt call left it.
FmtWriter == Unwrap(fmt_writer)

\* The value handed to debug_fmt is rendered with a palette.
FmtColoredValue == FmtValue.color_scheme # None

\* C31: in every rendering layer (colorizer, argument, argument list, function
\* record) the sink's first failed write is what the rendering returns, as an
\* error, and no write is attempted on the sink after it: for every value of
\* the tests and every buffer length, debug_fmt returns Err exactly when a
\* write of the sink failed, a buffer shorter than the full output makes a
\* write fail, and the sink saw no write call after its first failure.
C31_FirstFailureEndsRendering ==
    FmtCalled =>
        /\ FmtWriter.late = 0
        /\ FmtWriter.failed <=> (FmtResult.tag = "Err")
        /\ (buffer < FullLen(FmtValue)) => FmtWriter.failed

\* A colored function record of two arguments failed after a part of it had
\* been written, in a write that was not its last one.
C31_FirstFailureEndsRendering_Witness ==
    /\ FmtCalled
    /\ FmtColoredValue
    /\ FmtValue.data.type = "UnwindContextFunc"
    /\ Len(FmtValue.data.args) = 2
    /\ FmtWriter.failed
    /\ FmtWriter.buf # <<>>
    /\ FmtWriter.late = 0
    /\ buffer + 8 < FullLen(FmtValue)

\* The text `part` is the text `whole` cut short: its start, not all of it.
IsStrictPrefix(part, whole) ==
    /\ Len(part) < Len(whole)
    /\ part = SubSeq(whole, 1, Len(part))

\* The first text the rendering of the value v writes: the name of the
\* argument, when v is an argument with a name.
FirstWrite(v) ==
    IF v.data.type = "UnwindContextArg" /\ v.data.name # None
    THEN Unwrap(v.data.name)
    ELSE <<>>

\* C32: a rendering that fails part-way leaves what it had written in the
\* sink: after a debug_fmt call that returned Err the buffer holds a strict
\* prefix of the output a successful rendering produces, and nothing else; the
\* part written before the failure is still there (an argument's name that
\* fitted is in the buffer).
C32_FailureLeavesStrictPrefix ==
    (FmtCalled /\ FmtResult.tag = "Err") =>
        /\ IsStrictPrefix(FmtWriter.buf, FullText(FmtValue))
        /\ (StrLen(FirstWrite(FmtValue)) <= buffer)
               => Len(FmtWriter.buf) >= Len(FirstWrite(FmtValue))

\* A colored argument failed after its name, its separator and an escape had
\* been written.
C32_FailureLeavesStrictPrefix_Witness ==
    /\ FmtCalled
    /\ FmtResult.tag = "Err"
    /\ FmtColoredValue
    /\ FirstWrite(FmtValue) # <<>>
    /\ Len(FmtWriter.buf) > Len(FirstWrite(FmtValue)) + 2
    /\ IsStrictPrefix(FmtWriter.buf, FullText(FmtValue))

\* --------------------------------------------- colorized argument lists

\* The position, in the plain text of the list, of the first character of
\* entry i.
EntryStart(args, i) ==
    IF i = 1 THEN 1 ELSE Len(JoinedEntries(SubSeq(args, 1, i - 1))) + 3

\* The positions, in the plain text of the list, of the ", " separators and of
\* the "name: " prefixes.
OutsideValues(args) ==
    UNION {({EntryStart(args, i) - 2, EntryStart(args, i) - 1} \ {-1, 0})
              \cup (IF args[i].name = None THEN {}
                    ELSE EntryStart(args, i)
                             ..(EntryStart(args, i) + Len(Unwrap(args[i].name)) + 1)) :
           i \in 1..Len(args)}

\* The output of the argument on its own, colorized with the palette.
ColoredEntry(arg, color_scheme) == FullText(AnsiColored(ArgData(arg), color_scheme))

\* The colorized entries in list order, ", " before every entry but the first.
JoinedColoredEntries(args, color_scheme) ==
    Flatten([i \in 1..Len(args) |->
                (IF i = 1 THEN <<>> ELSE <<",", " ">>)
                    \o ColoredEntry(args[i], color_scheme)])

\* A colorized argument list was rendered whole with the test palette.
ColoredListRendered ==
    /\ FmtCalled
    /\ FmtValue.color_scheme = Some(TEST_ANSI_COLOR_SCHEME)
    /\ FmtValue.data.type = "UnwindContextArgs"
    /\ FmtResult.tag = "Ok"

\* C33: in the colorized rendering of an argument list every argument goes
\* through a colorizer of its own, which starts in Default and is reset at the
\* end of the argument: the list's output is the arguments' own colorized
\* outputs joined by ", ", and every character of a "name: " prefix and of a
\* ", " separator is written in the style Default, whatever the argument
\* before it ended in.
C33_PrefixesAndSeparatorsInDefault ==
    ColoredListRendered =>
        /\ FmtResult.str = JoinedColoredEntries(FmtValue.data.args, TEST_ANSI_COLOR_SCHEME)
        /\ \A k \in OutsideValues(FmtValue.data.args) :
               StylesOf(FmtResult.str, "Default")[k] = "Default"

\* A list of two arguments whose first value ends in a style other than
\* Default (a number, a closing quote, a brace) and whose second has a name.
C33_PrefixesAndSeparatorsInDefault_Witness ==
    /\ ColoredListRendered
    /\ Len(FmtValue.data.args) = 2
    /\ FmtValue.data.args[2].name # None
    /\ StylesOf(ColoredEntry(FmtValue.data.args[1], TEST_ANSI_COLOR_SCHEME), "Default")
           [Len(EntryText(FmtValue.data.args[1]))] \in {"Number", "Quoted", "Brace"}
    /\ Cardinality(OutsideValues(FmtValue.data.args)) = 2 + Len(Unwrap(FmtValue.data.args[2].name)) + 2
           + (IF FmtValue.data.args[1].name = None THEN 0
              ELSE Len(Unwrap(FmtValue.data.args[1].name)) + 2)

\* ------------------------------------------------ what rendering leaves alone

\* The guards below the running function's frame are what they were.
OtherGuardsUnchanged == \A i \in 1..(Len(frames) - 1) : frames'[i] = frames[i]

\* C34: rendering reads the guard and writes to its writer only: a print()
\* call leaves every guard as it was (payload, location, color scheme and
\* detector of the printed guard included), a drop leaves the other guards as
\* they were, both leave every writer but the guard's own untouched and do not
\* change the detector's flag, the process-wide flag or the process-wide
\* palette; and a second print() of a guard whose writer holds its record
\* appends the identical record.
C34_RenderingOnlyWrites ==
    [][/\ PrintCalled => frames' = frames
       /\ GuardDropped => OtherGuardsUnchanged
       /\ (PrintCalled \/ GuardDropped)
             => /\ OtherSinksUnchanged
                /\ is_panicking' = is_panicking
                /\ SHOULD_COLORIZE' = SHOULD_COLORIZE
                /\ DEFAULT_COLOR_SCHEME' = DEFAULT_COLOR_SCHEME
       /\ (PrintCalled /\ sinks[TopSink].buf = TopRecord
               /\ HasRoom(sinks[TopSink], TopRecord))
             => sinks'[TopSink].buf = TopRecord \o TopRecord]_vars

\* func1's guard, with a writer of its own, was printed twice
\* while the test body's guard exists: its writer holds two identical records,
\* the guard is still there, and the other writers are empty.
C34_RenderingOnlyWrites_Witness ==
    /\ pc = "call" /\ Top.fn = 1 /\ prints = 2
    /\ frames[1].ctx # NoGuard
    /\ cfg.writer = "FixedBufWriter"
    /\ sinks[TopSink].buf = TopRecord \o TopRecord
    /\ \A i \in DOMAIN sinks : i # TopSink => sinks[i].buf = <<>>

\* --------------------------------------------- when the detector is asked

\* The records the guard of the test body can write: plain, or with the
\* palette given to it or taken from the process-wide settings.
MainRecords ==
    {RecordText(build_foo_bar(cfg.foo, cfg.bar), s, MainLocation) :
        s \in {None} \cup {Some(p) : p \in Schemes}}

C37_RendersInPaletteOfCreation ==
    (pc = "main" /\ ~sinks[0].failed) =>
        /\ Top.ctx # NoGuard
              => (sinks[0].buf = <<>> \/ IsCopies(sinks[0].buf, TopRecord))
        /\ (Top.ctx = NoGuard /\ Len(reported) = 2)
              => (sinks[0].buf = <<>> \/ \E r \in MainRecords : IsCopies(sinks[0].buf, r))

\* A guard created without the argument while the flag was not set has
\* printed its plain record; the flag is set and the test palette installed.
C37_RendersInPaletteOfCreation_Witness ==
    /\ pc = "main" /\ Top.ctx # NoGuard /\ Top.color_arg = NotGiven
    /\ Top.ctx.color_scheme = None
    /\ get_default_color_scheme_if_enabled = Some(TEST_ANSI_COLOR_SCHEME)
    /\ prints = 1
    /\ sinks[0].buf = RecordText(build_foo_bar(cfg.foo, cfg.bar), None, MainLocation)

\* ------------------------------------------ the text handed over in chunks

\* The write_str calls the value handed to debug_fmt makes on the colorizer.
FmtChunks == DebugChunks(FmtValue.data.value)

\* C38: the colorized output of a text does not depend on the write_str calls
\* the text is cut into: debug_fmt of a value that writes the text in several
\* calls returns what debug_fmt of a value that writes it in one call returns.
C38_ChunkingDoesNotMatter ==
    FmtCalled => FmtResult = debug_fmt(buffer, fmt_str_as_arg(Flatten(FmtChunks)))

\* ---------------------------------------- the settings under interleaving

\* The functions that are one atomic load or store.
OneStepFns ==
    {"set_colors_enabled", "are_colors_enabled", "set_default_color_scheme",
     "get_default_color_scheme"}

\* Thread t is in a call of one of them.
InOneStepCall(t) == threads[t].pc = "called" /\ threads[t].fn \in OneStepFns

\* The atomic operation of the call thread t is in.
ThreadStep(t) ==
    \/ store_SHOULD_COLORIZE(t)
    \/ load_SHOULD_COLORIZE(t)
    \/ store_DEFAULT_COLOR_SCHEME(t)
    \/ load_DEFAULT_COLOR_SCHEME(t)

\* The flag as the latest store left it, false before any.
LastWrittenFlag == IF last_enabled = None THEN FALSE ELSE Unwrap(last_enabled)

\* C35: under every interleaving of set_colors_enabled, are_colors_enabled,
\* set_default_color_scheme and get_default_color_scheme calls of several
\* threads, a call that has started can always take its step, whatever the
\* other threads are doing, and that one step completes it; a read returns
\* the value of the latest store made so far, the initial value before any,
\* and that value is the initial one or the argument of a set call that has
\* started.
C35_OneStepCallsReadLatestStore ==
    /\ [](\A t \in Threads : InOneStepCall(t) => ENABLED ThreadStep(t))
    /\ [][\A t \in Threads :
            (InOneStepCall(t) /\ threads'[t] # threads[t])
            => /\ threads'[t].pc = "idle"
               /\ threads[t].fn = "are_colors_enabled"
                     => /\ threads'[t].ret = <<LastWrittenFlag>>
                        /\ LastWrittenFlag \in {FALSE} \cup calls.enabled
               /\ threads[t].fn = "get_default_color_scheme"
                     => /\ threads'[t].ret = <<InstalledPalette>>
                        /\ InstalledPalette
                               \in {DEFAULT_DEFAULT_COLOR_SCHEME} \cup calls.color_scheme]_vars

\* Both palettes have been installed, by two threads, and a
\* get_default_color_scheme call made in between returned the test palette,
\* the latest one then.
C35_OneStepCallsReadLatestStore_Witness ==
    /\ calls.color_scheme = Schemes
    /\ last_scheme = Some(DEFAULT_DEFAULT_COLOR_SCHEME)
    /\ threads[1].pc = "idle" /\ threads[1].fn = "get_default_color_scheme"
    /\ threads[1].ret = <<TEST_ANSI_COLOR_SCHEME>>
    /\ threads[2].pc = "idle" /\ threads[2].fn = "set_default_color_scheme"

\* Thread t has returned Some(..) from get_default_color_scheme_if_enabled.
ReturnedSome(t) ==
    /\ threads[t].pc = "idle"
    /\ threads[t].fn = "get_default_color_scheme_if_enabled"
    /\ threads[t].ret # <<>>
    /\ threads[t].ret[1] # None

\* The palette it returned.
ReturnedScheme(t) == Unwrap(threads[t].ret[1])

====
